---- MODULE Spec2Model ----
(***************************************************************************)
(* Model of the addressing and binding core of mhubio:                     *)
(*   DirectoryChain, Instance / InstanceData / InstanceDataBundle,         *)
(*   DataHandler (registry, export_yml / import_yml) and the IO binding    *)
(*   layer (IO.Instance, IO.Input, IO.Output).                             *)
(*                                                                         *)
(* Python objects live in heaps (sequences indexed by object identity);    *)
(* a reference is the index of the object, 0 is None.                      *)
(***************************************************************************)
EXTENDS Integers, Sequences, FiniteSets, TLC

\* ------------------------------------------------------------------------
\* bounds of the model
\* ------------------------------------------------------------------------
MaxCtorData == 2

\* InstanceData._increment_path gives up once i > 100
MaxAttempts == 100

\* ------------------------------------------------------------------------
\* paths
\*   a path string is its list of segments plus a flag telling whether it
\*   starts with os.sep; a segment is name[_n]*[.ext]
\* ------------------------------------------------------------------------
Seg(n) == [name |-> n, sfx |-> <<>>, ext |-> ""]
FileSeg(n, x) == [name |-> n, sfx |-> <<>>, ext |-> x]
RelPath(s) == [abs |-> FALSE, segs |-> s]
AbsPath(s) == [abs |-> TRUE, segs |-> s]
EmptyPath == RelPath(<<>>)
RootPath == AbsPath(<<>>)

\* os.path.join(a, b)
\* faulty variant: an absolute second path does not replace the first
JoinDropsAbsolute(a, b) == [abs |-> a.abs, segs |-> a.segs \o b.segs]
Join(a, b) == IF b.abs THEN b ELSE [abs |-> a.abs, segs |-> a.segs \o b.segs]

\* os.path.split(p): (head, tail)
SplitHead(p) == [abs |-> p.abs, segs |-> IF p.segs = <<>> THEN <<>> ELSE SubSeq(p.segs, 1, Len(p.segs) - 1)]
SplitTail(p) == IF p.segs = <<>> THEN Seg("") ELSE p.segs[Len(p.segs)]

\* os.path.exists(p) on the file system fs (the set of the paths that were
\* created): a path exists if it was created or if something was created
\* below it
IsBelow(p, q) ==
    /\ p.abs = q.abs
    /\ Len(p.segs) < Len(q.segs)
    /\ SubSeq(q.segs, 1, Len(p.segs)) = p.segs
Exists(fs, p) == p \in fs \/ \E q \in fs : IsBelow(p, q)

\* Optional[str] of DirectoryChain.base
NoBase == [isset |-> FALSE, p |-> EmptyPath]
SomeBase(p) == [isset |-> TRUE, p |-> p]

\* ------------------------------------------------------------------------
\* DirectoryChain
\*   c is the heap of chain nodes, n the index of a node
\* ------------------------------------------------------------------------
DirectoryChain(path, base, parent) == [path |-> path, base |-> base, parent |-> parent]

isEntrypoint(c, n) == c[n].base.isset \/ c[n].path.abs

\* faulty variant of abspath: the parent is looked at before the base and an
\* absolute path is appended to it (C10 fails under it)
RECURSIVE abspathParentFirst(_, _)
abspathParentFirst(c, n) ==
    IF c[n].parent # 0 THEN JoinDropsAbsolute(abspathParentFirst(c, c[n].parent), c[n].path)
    ELSE IF c[n].base.isset THEN Join(c[n].base.p, c[n].path)
    ELSE c[n].path

RECURSIVE abspath(_, _)
abspath(c, n) ==
    IF c[n].base.isset THEN Join(c[n].base.p, c[n].path)
    ELSE IF c[n].parent # 0 THEN Join(abspath(c, c[n].parent), c[n].path)
    ELSE c[n].path

setBase(c, n, base) == [c EXCEPT ![n].base = base]
setParent(c, n, parent) == [c EXCEPT ![n].parent = parent]
setPath(c, n, path) == [c EXCEPT ![n].path = path]
makeEntrypoint(c, n, enforceAbsolutePath) ==
    setBase(c, n, IF enforceAbsolutePath THEN SomeBase(RootPath) ELSE SomeBase(EmptyPath))

\* the chain from node n up to its root, as DirectoryChain.asDict nests it
RECURSIVE asDict(_, _)
asDict(c, n) ==
    <<[path |-> c[n].path, base |-> c[n].base]>>
        \o (IF c[n].parent # 0 THEN asDict(c, c[n].parent) ELSE <<>>)

\* DirectoryChain.makedirs(): the regular expression finds a file name iff
\* the last dot of the resolved path follows a character other than '/' and
\* is followed by at least one character, i.e. iff some segment has an
\* extension; the directory created is the path itself or its dirname
IsFilePath(p) == \E j \in 1..Len(p.segs) : p.segs[j].ext # ""
makedirs(c, fs, n) ==
    LET p == abspath(c, n)
    IN  fs \cup {IF IsFilePath(p) THEN SplitHead(p) ELSE p}

\* ------------------------------------------------------------------------
\* the ownership graph
\*   g = [dc, hnd, inst, bundle, data]: the heaps of chain nodes and of the
\*   DataHandler, Instance, InstanceDataBundle and InstanceData objects
\* ------------------------------------------------------------------------
EmptyGraph == [dc |-> <<>>, hnd |-> <<>>, inst |-> <<>>, bundle |-> <<>>, data |-> <<>>]

\* Instance.attr['id']: a fresh uuid for every instance (its number here),
\* 'global' for the global instance
GlobalId == 0

\* Instance.__init__(path)
Instance__init__(g, path) ==
    LET n == Len(g.dc) + 1
    IN  [g EXCEPT !.dc = Append(g.dc, DirectoryChain(path, NoBase, 0)),
                  !.inst = Append(g.inst, [dc |-> n, handler |-> 0, data |-> <<>>, attr |-> Len(g.inst) + 1])]

\* faulty variant: the chain of a nested bundle hangs under the instance
\* (C11 fails under it)
BundleUnderInstance(g, ref, instance, bundle) ==
    [g EXCEPT !.dc = Append(g.dc, DirectoryChain(ref, NoBase, g.inst[instance].dc)),
              !.bundle = Append(g.bundle, [instance |-> instance, bundle |-> bundle, dc |-> Len(g.dc) + 1])]

\* InstanceDataBundle.__init__(ref, instance, bundle)
InstanceDataBundle__init__(g, ref, instance, bundle) ==
    LET n == Len(g.dc) + 1
        parent == IF bundle = 0 THEN g.inst[instance].dc ELSE g.bundle[bundle].dc
    IN  [g EXCEPT !.dc = Append(g.dc, DirectoryChain(ref, NoBase, parent)),
                  !.bundle = Append(g.bundle, [instance |-> instance, bundle |-> bundle, dc |-> n])]

\* Instance.getDataBundle(ref) / InstanceData.getDataBundle(ref); the new
\* bundle is the last one of the heap
Instance_getDataBundle(g, i, ref) == InstanceDataBundle__init__(g, ref, i, 0)
InstanceData_getDataBundle(g, d, ref) ==
    InstanceDataBundle__init__(g, ref, g.data[d].instance, g.data[d].bundle)

InSeq(x, s) == \E k \in 1..Len(s) : s[k] = x

\* InstanceDataCollection.add(data)
CollectionAdd(s, d) == IF InSeq(d, s) THEN s ELSE Append(s, d)

\* InstanceData.instance (setter)
DataSetInstance(g, d, i) ==
    LET g1 == [g EXCEPT !.data[d].instance = i]
    IN  IF g.data[d].bundle = 0
        THEN [g1 EXCEPT !.dc = setParent(g.dc, g.data[d].dc, g.inst[i].dc)]
        ELSE g1

\* InstanceData.bundle (setter)
DataSetBundle(g, d, b) ==
    [g EXCEPT !.data[d].bundle = b,
              !.dc = setParent(g.dc, g.data[d].dc, g.bundle[b].dc)]

\* Instance.addData(data)
Instance_addData(g, i, d) ==
    LET g1 == DataSetInstance(g, d, i)
    IN  IF InSeq(d, g1.inst[i].data) THEN g1
        ELSE [g1 EXCEPT !.inst[i].data = CollectionAdd(g1.inst[i].data, d)]

\* InstanceDataBundle.addData(data)
InstanceDataBundle_addData(g, b, d) ==
    DataSetBundle(Instance_addData(g, g.bundle[b].instance, d), d, b)

\* InstanceData.abspath
DataAbspath(g, d) == abspath(g.dc, g.data[d].dc)

\* InstanceData._path_used_in_instance(path); self.instance is set
\* faulty variant: the files of the instance are not looked at (C7 fails
\* under it)
PathUsedIgnored(g, d, path) == FALSE
_path_used_in_instance(g, d, path) ==
    LET col == g.inst[g.data[d].instance].data
    IN  \E k \in 1..Len(col) : col[k] # d /\ DataAbspath(g, col[k]) = path

\* the loop condition of _increment_path and of the constructor
PathTaken(g, fs, d) ==
    Exists(fs, DataAbspath(g, d)) \/ _path_used_in_instance(g, d, DataAbspath(g, d))

\* the candidate of round i: pfname + '_' + str(i) [+ '.' + pfext]
Candidate(path, i) ==
    LET t == SplitTail(path)
    IN  Join(SplitHead(path), RelPath(<<[t EXCEPT !.sfx = t.sfx \o <<i>>]>>))

\* InstanceData._increment_path: round i of the while loop sets the path to
\* candidate i and raises if i > 100; the loop ends before round 1 if the
\* path is not taken, else with the first round that raises or whose
\* candidate is not taken
WithCandidate(g, d, orig, i) == [g EXCEPT !.dc = setPath(g.dc, g.data[d].dc, Candidate(orig, i))]
LastRound(g, fs, d, orig) ==
    CHOOSE i \in 1..(MaxAttempts + 1) :
        /\ i > MaxAttempts \/ ~PathTaken(WithCandidate(g, d, orig, i), fs, d)
        /\ \A j \in 1..(i - 1) : PathTaken(WithCandidate(g, d, orig, j), fs, d)
_increment_path(g, fs, d) ==
    LET orig == g.dc[g.data[d].dc].path
        i == LastRound(g, fs, d, orig)
    IN  IF ~PathTaken(g, fs, d) THEN [g |-> g, raised |-> FALSE]
        ELSE [g |-> WithCandidate(g, d, orig, i), raised |-> i > MaxAttempts]

\* the owner linking of InstanceData.__init__ (bundle > data.bundle >
\* instance > data.instance); 'data.instance' asserts that it is set
\* faulty variant: the instance comes before the bundle (C5 fails under it)
LinkInstanceFirst(g, self, instance, bundle, data) ==
    IF instance # 0 THEN [g |-> Instance_addData(g, instance, self), raised |-> FALSE]
    ELSE IF bundle # 0 THEN [g |-> InstanceDataBundle_addData(g, bundle, self), raised |-> FALSE]
    ELSE IF data # 0 /\ g.data[data].bundle # 0
        THEN [g |-> InstanceDataBundle_addData(g, g.data[data].bundle, self), raised |-> FALSE]
    ELSE IF data # 0 /\ g.data[data].instance # 0
        THEN [g |-> Instance_addData(g, g.data[data].instance, self), raised |-> FALSE]
    ELSE [g |-> g, raised |-> data # 0]
Link(g, self, instance, bundle, data) ==
    IF bundle # 0 THEN [g |-> InstanceDataBundle_addData(g, bundle, self), raised |-> FALSE]
    ELSE IF data # 0 /\ g.data[data].bundle # 0
        THEN [g |-> InstanceDataBundle_addData(g, g.data[data].bundle, self), raised |-> FALSE]
    ELSE IF instance # 0 THEN [g |-> Instance_addData(g, instance, self), raised |-> FALSE]
    ELSE IF data # 0 /\ g.data[data].instance # 0
        THEN [g |-> Instance_addData(g, g.data[data].instance, self), raised |-> FALSE]
    ELSE [g |-> g, raised |-> data # 0]

\* the sanity checks of InstanceData.__init__: TRUE iff one of them fails
\* faulty variant: only the first check is made (C6 fails under it)
SanityFailsBundleOnly(g, instance, bundle, data) ==
    bundle # 0 /\ instance # 0 /\ g.bundle[bundle].instance # instance
SanityFails(g, instance, bundle, data) ==
    \/ bundle # 0 /\ instance # 0 /\ g.bundle[bundle].instance # instance
    \/ data # 0 /\ instance # 0 /\ g.data[data].instance # instance
    \/ data # 0 /\ bundle # 0 /\ g.data[data].instance # g.bundle[bundle].instance

\* InstanceData.__init__(path, type, instance, bundle, data, auto_increment)
\*   the new object is the last one of the data heap; raised tells how the
\*   constructor ended: "no", "assert" or "nofree"
\* the new object before it is linked to an owner
NewData(g, path, type) ==
    [g EXCEPT !.dc = Append(g.dc, DirectoryChain(path, NoBase, 0)),
              !.data = Append(g.data, [type |-> type, instance |-> 0, bundle |-> 0,
                                       confirmed |-> FALSE, dc |-> Len(g.dc) + 1])]
\* the end of the constructor, r the result of _increment_path
Incremented(r, self) ==
    [g |-> r.g, id |-> self, raised |-> IF r.raised THEN "nofree" ELSE "no"]
\* the constructor from the sanity checks on, l the result of the linking
Linked(l, fs, self, instance, bundle, data, auto_increment) ==
    IF l.raised THEN [g |-> l.g, id |-> self, raised |-> "assert"]
    ELSE IF SanityFails(l.g, instance, bundle, data)
        THEN [g |-> l.g, id |-> self, raised |-> "assert"]
    ELSE IF ~auto_increment THEN [g |-> l.g, id |-> self, raised |-> "no"]
    ELSE IF l.g.data[self].instance = 0 THEN [g |-> l.g, id |-> self, raised |-> "assert"]
    ELSE IF ~PathTaken(l.g, fs, self) THEN [g |-> l.g, id |-> self, raised |-> "no"]
    ELSE Incremented(_increment_path(l.g, fs, self), self)
InstanceData__init__(g, fs, path, type, instance, bundle, data, auto_increment) ==
    Linked(Link(NewData(g, path, type), Len(g.data) + 1, instance, bundle, data),
           fs, Len(g.data) + 1, instance, bundle, data, auto_increment)

\* InstanceData.confirm()
confirm(g, d) == [g EXCEPT !.data[d].confirmed = TRUE]

\* ------------------------------------------------------------------------
\* DataHandler
\* ------------------------------------------------------------------------
\* a re-binding that resets the files of the instance to unconfirmed
InstanceSetHandlerReset(g, i, h) ==
    [g EXCEPT !.inst[i].handler = h,
              !.dc = setParent(g.dc, g.inst[i].dc, g.hnd[h].dc),
              !.data = [d \in 1..Len(g.data) |->
                          IF g.data[d].instance = i THEN [g.data[d] EXCEPT !.confirmed = FALSE]
                          ELSE g.data[d]]]

\* Instance.handler (setter)
InstanceSetHandler(g, i, h) ==
    [g EXCEPT !.inst[i].handler = h,
              !.dc = setParent(g.dc, g.inst[i].dc, g.hnd[h].dc)]

\* DataHandler.__init__(base): the chain node, makeEntrypoint(), the global
\* instance
DataHandler__init__(g, base) ==
    LET n == Len(g.dc) + 1
        h == Len(g.hnd) + 1
        g1 == [g EXCEPT !.dc = makeEntrypoint(Append(g.dc, DirectoryChain(base, NoBase, 0)), n, TRUE)]
        g2 == Instance__init__(g1, RelPath(<<Seg("_global")>>))
        gi == Len(g2.inst)
        g3 == [g2 EXCEPT !.inst[gi].attr = GlobalId,
                         !.hnd = Append(g2.hnd, [dc |-> n, instances |-> <<>>, globalInstance |-> gi])]
    IN  InstanceSetHandler(g3, gi, h)

\* DataHandler.addInstance(instance); the caller checks the assertion
DataHandler_addInstance(g, h, i) ==
    LET g1 == InstanceSetHandler(g, i, h)
    IN  [g1 EXCEPT !.hnd[h].instances = Append(g1.hnd[h].instances, i)]

\* DataHandler.instances (setter)
RECURSIVE SetHandlerAll(_, _, _, _)
SetHandlerAll(g, h, list, k) ==
    IF k > Len(list) THEN g ELSE SetHandlerAll(InstanceSetHandler(g, list[k], h), h, list, k + 1)
DataHandler_setInstances(g, h, list) ==
    [SetHandlerAll(g, h, list, 1) EXCEPT !.hnd[h].instances = list]

\* ------------------------------------------------------------------------
\* Meta and DataType
\*   a string is the sequence of its tokens, ":" and "=" being tokens of
\*   their own; a Meta is the ordered list of the items of its dict
\* ------------------------------------------------------------------------
FileTypeMembers == {"NONE", "NRRD", "NIFTI", "DICOM", "DICOMSEG", "RTSTRUCT", "CSV", "TXT",
                    "LOG", "JSON", "MHA", "TIFF"}

\* str.upper() of the tokens used as file type names
Upper(tok) ==
    CASE tok = "txt" -> "TXT"
      [] tok = "log" -> "LOG"
      [] tok = "nrrd" -> "NRRD"
      [] tok = "dicom" -> "DICOM"
      [] tok = "nifti" -> "NIFTI"
      [] tok = "none" -> "NONE"
      [] OTHER -> tok

HasKey(m, k) == \E j \in 1..Len(m) : m[j].k = k
KeyIndex(m, k) == CHOOSE j \in 1..Len(m) : m[j].k = k

\* Meta.getValue(key, default = "")
getValue(m, k) == IF HasKey(m, k) THEN m[KeyIndex(m, k)].v ELSE <<>>

\* mdict[k] = v
DictSet(m, k, v) ==
    IF HasKey(m, k) THEN [m EXCEPT ![KeyIndex(m, k)].v = v] ELSE Append(m, [k |-> k, v |-> v])

\* Meta.__add__ / Meta.ext: {**self.mdict, **o.mdict}
RECURSIVE Meta__add__(_, _)
Meta__add__(m, o) == IF o = <<>> THEN m ELSE Meta__add__(DictSet(m, o[1].k, o[1].v), Tail(o))

DataType(ftype, meta) == [ftype |-> ftype, meta |-> meta]

\* s.split(sep)
RECURSIVE Split(_, _)
Split(s, sep) ==
    IF \A j \in 1..Len(s) : s[j] # sep THEN <<s>>
    ELSE LET k == CHOOSE j \in 1..Len(s) : s[j] = sep /\ \A i \in 1..(j - 1) : s[i] # sep
         IN  <<SubSeq(s, 1, k - 1)>> \o Split(SubSeq(s, k + 1, Len(s)), sep)

\* ":".join(f"{k}={v}" for k, v in meta.items())
RECURSIVE JoinItems(_)
JoinItems(m) ==
    IF m = <<>> THEN <<>>
    ELSE m[1].k \o <<"=">> \o m[1].v \o (IF Len(m) > 1 THEN <<":">> \o JoinItems(Tail(m)) ELSE <<>>)

\* DataType.toString()
toString(t) == <<t.ftype, ":">> \o JoinItems(t.meta)

\* DataType.fromString(s): raised iff the file type is no member of
\* FileType or a key-value part does not split into exactly two at "="
RECURSIVE MetaOfParts(_)
MetaOfParts(parts) ==
    IF parts = <<>> THEN <<>>
    ELSE LET kv == Split(parts[Len(parts)], "=")
         IN  DictSet(MetaOfParts(SubSeq(parts, 1, Len(parts) - 1)), kv[1], kv[2])
fromString(s) ==
    LET parts == Split(s, ":")
        okType == Len(parts[1]) = 1 /\ Upper(parts[1][1]) \in FileTypeMembers
        okMeta == \A j \in 2..Len(parts) : Len(Split(parts[j], "=")) = 2
    IN  IF okType /\ okMeta
        THEN [raised |-> FALSE, type |-> DataType(Upper(parts[1][1]), MetaOfParts(Tail(parts)))]
        ELSE [raised |-> TRUE, type |-> DataType("NONE", <<>>)]

\* str.lower() of the tokens used as file type names and tag values
Lower(tok) ==
    CASE tok = "TXT" -> "txt"
      [] tok = "LOG" -> "log"
      [] tok = "NRRD" -> "nrrd"
      [] tok = "DICOM" -> "dicom"
      [] tok = "NIFTI" -> "nifti"
      [] tok = "CT" -> "ct"
      [] tok = "NONE" -> "none"
      [] tok = "ANY" -> "any"
      [] OTHER -> tok
LowerStr(s) == [j \in 1..Len(s) |-> Lower(s[j])]

\* Meta.__le__(o): self[k] is getValue(k), "" for a key self does not carry
Meta__le__(m, o) ==
    \A j \in 1..Len(o) :
        IF o[j].v = <<"*">> THEN HasKey(m, o[j].k)
        ELSE LowerStr(getValue(m, o[j].k)) = LowerStr(o[j].v)

\* str.isnumeric() and int() of a value: a number is one token
Numerals == {"1", "2", "10"}
isnumeric(s) == Len(s) = 1 /\ s[1] \in Numerals
int(s) == CASE s = <<"1">> -> 1 [] s = <<"2">> -> 2 [] s = <<"10">> -> 10 [] s = <<"-1">> -> 0 - 1
\* int(s) does not raise ValueError: a numeral, a sign allowed
CanInt(s) == isnumeric(s) \/ s = <<"-1">>

\* v in s, for two strings
Contains(s, v) == \E j \in 0..(Len(s) - Len(v)) : SubSeq(s, j + 1, j + Len(v)) = v
\* set(s.split(','))
ItemSet(s) == {Split(s, ",")[j] : j \in 1..Len(Split(s, ","))}

HasOp(kov, op) == \E j \in 1..Len(kov) : kov[j] = op

\* DataTypeQuery.evaluateMeta, the '>=' branch: k, v = kov.split('!='); the
\* unpacking raises ValueError unless the split gives two parts
evaluateGeq(kov, ref_meta) ==
    LET kv == Split(kov, "!=")
    IN  IF Len(kv) # 2 THEN [raised |-> TRUE, value |-> FALSE]
        ELSE IF ~HasKey(ref_meta, kv[1]) THEN [raised |-> FALSE, value |-> FALSE]
        ELSE IF isnumeric(kv[2])
        THEN IF isnumeric(getValue(ref_meta, kv[1]))
             THEN [raised |-> FALSE, value |-> int(getValue(ref_meta, kv[1])) >= int(kv[2])]
             ELSE [raised |-> TRUE, value |-> FALSE]
        ELSE IF HasOp(kv[2], ",")
        THEN [raised |-> FALSE, value |-> ItemSet(kv[2]) \subseteq ItemSet(getValue(ref_meta, kv[1]))]
        ELSE [raised |-> FALSE, value |-> Contains(getValue(ref_meta, kv[1]), kv[2])]

\* DataTypeQuery.evaluateMeta, the '><' and '<>' branches after the key was
\* found: the assertion that both sides are lists, then the comparison of
\* the two sets (equal for '><', disjoint for '<>')
evaluateLists(op, v, r) ==
    IF ~(HasOp(v, ",") /\ HasOp(r, ",")) THEN [raised |-> TRUE, value |-> FALSE]
    ELSE [raised |-> FALSE,
          value |-> IF op = "><" THEN ItemSet(v) = ItemSet(r)
                    ELSE ItemSet(v) \cap ItemSet(r) = {}]

\* the '<=' branch with the comparison of '>=': the list of the tag has to
\* contain all values of v
evaluateLeqContainsAll(v, r) ==
    IF isnumeric(v)
    THEN IF CanInt(r) THEN [raised |-> FALSE, value |-> int(r) <= int(v)]
         ELSE [raised |-> TRUE, value |-> FALSE]
    ELSE [raised |-> FALSE, value |-> ItemSet(v) \subseteq ItemSet(r)]

\* the '<=' branch after the key was found: int(ref_meta[k]) <= int(v) for a
\* numeric v, set(v_lst) >= set(r_lst) and len(r_lst) > 0 otherwise
evaluateLeq(v, r) ==
    IF isnumeric(v)
    THEN IF CanInt(r) THEN [raised |-> FALSE, value |-> int(r) <= int(v)]
         ELSE [raised |-> TRUE, value |-> FALSE]
    ELSE [raised |-> FALSE,
          value |-> ItemSet(r) \subseteq ItemSet(v) /\ Len(Split(r, ",")) > 0]

\* the '>' and '<' branches after the key was found: the assertion that both
\* sides are numeric, then the comparison
evaluateOrder(op, v, r) ==
    IF ~(isnumeric(v) /\ isnumeric(r)) THEN [raised |-> TRUE, value |-> FALSE]
    ELSE [raised |-> FALSE, value |-> IF op = ">" THEN int(r) > int(v) ELSE int(r) < int(v)]

\* re.match(v, r) for a pattern v without special characters: r starts with
\* v ("1" is the only numeral another numeral starts with)
reMatch(v, r) ==
    /\ Len(v) <= Len(r)
    /\ \A j \in 1..Len(v) :
          \/ v[j] = r[j]
          \/ j = Len(v) /\ v[j] = "1" /\ r[j] = "10"

\* the branches of evaluateMeta that return False for a key the reference
\* meta does not carry, before they look at the value v
evaluateKeyed(op, kov, ref_meta) ==
    LET kv == Split(kov, op)
    IN  IF Len(kv) # 2 THEN [raised |-> TRUE, value |-> FALSE]
        ELSE IF ~HasKey(ref_meta, kv[1]) THEN [raised |-> FALSE, value |-> FALSE]
        ELSE IF op \in {"><", "<>"} THEN evaluateLists(op, kv[2], getValue(ref_meta, kv[1]))
        ELSE IF op = "<=" THEN evaluateLeq(kv[2], getValue(ref_meta, kv[1]))
        ELSE IF op = "~=" THEN [raised |-> FALSE, value |-> reMatch(kv[2], getValue(ref_meta, kv[1]))]
        ELSE IF op = "="
        THEN [raised |-> FALSE,
              value |-> \/ kv[2] = <<"*">>
                        \/ \E j \in 1..Len(Split(kv[2], "|")) :
                              LowerStr(getValue(ref_meta, kv[1])) = LowerStr(Split(kv[2], "|")[j])]
        ELSE evaluateOrder(op, kv[2], getValue(ref_meta, kv[1]))

\* DataTypeQuery.evaluateMeta(kov, ref_meta): the operators are tried in the
\* order !=, ><, >=, <=, <>, ~=, =, >, <; r = [raised, value]
evaluateMetaResult(kov, ref_meta) ==
    IF HasOp(kov, "!=")
    THEN LET kv == Split(kov, "!=")
         IN  IF Len(kv) # 2 THEN [raised |-> TRUE, value |-> FALSE]
             ELSE [raised |-> FALSE,
                   value |-> ~HasKey(ref_meta, kv[1]) \/ getValue(ref_meta, kv[1]) # kv[2]]
    ELSE IF HasOp(kov, "><") THEN evaluateKeyed("><", kov, ref_meta)
    ELSE IF HasOp(kov, ">=") THEN evaluateGeq(kov, ref_meta)
    ELSE IF HasOp(kov, "<=") THEN evaluateKeyed("<=", kov, ref_meta)
    ELSE IF HasOp(kov, "<>") THEN evaluateKeyed("<>", kov, ref_meta)
    ELSE IF HasOp(kov, "~=") THEN evaluateKeyed("~=", kov, ref_meta)
    ELSE IF HasOp(kov, "=") THEN evaluateKeyed("=", kov, ref_meta)
    ELSE IF HasOp(kov, ">") THEN evaluateKeyed(">", kov, ref_meta)
    ELSE IF HasOp(kov, "<") THEN evaluateKeyed("<", kov, ref_meta)
    ELSE [raised |-> TRUE, value |-> FALSE]

\* the boolean evaluateMeta returns, for a clause it does not raise on
evaluateMeta(kov, ref_meta) == evaluateMetaResult(kov, ref_meta).value

\* a single expression that needs one of its clauses only
evaluateSingleAnyClause(expr, ref_type) ==
    LET parts == Split(expr, ":")
        names == Split(LowerStr(parts[1]), "|")
    IN  /\ \/ \E j \in 1..Len(names) : names[j] = <<Lower(ref_type.ftype)>>
           \/ LowerStr(parts[1]) = <<"any">>
        /\ Len(parts) > 1 => \E j \in 2..Len(parts) : evaluateMeta(parts[j], ref_type.meta)

\* DataTypeQuery.evaluate(expr, ref_type), a single expression on a
\* DataType: the file type matches one of the | separated names or the
\* definition is 'any', and all clauses hold
evaluateSingle(expr, ref_type) ==
    LET parts == Split(expr, ":")
        names == Split(LowerStr(parts[1]), "|")
    IN  /\ \/ \E j \in 1..Len(names) : names[j] = <<Lower(ref_type.ftype)>>
           \/ LowerStr(parts[1]) = <<"any">>
        /\ \A j \in 2..Len(parts) : evaluateMeta(parts[j], ref_type.meta)

\* DataTypeQuery.tokenize(query): the query is split at the blanks outside
\* of groups; the parentheses stay in the tokens
RECURSIVE tokenizeFrom(_, _, _, _)
tokenizeFrom(query, k, group_level, tokens) ==
    IF k > Len(query) THEN tokens
    ELSE IF query[k] = " " /\ group_level = 0
    THEN tokenizeFrom(query, k + 1, group_level, Append(tokens, <<>>))
    ELSE tokenizeFrom(query, k + 1,
                      IF query[k] = "(" THEN group_level + 1
                      ELSE IF query[k] = ")" THEN group_level - 1 ELSE group_level,
                      [tokens EXCEPT ![Len(tokens)] = Append(@, query[k])])
tokenize(query) == tokenizeFrom(query, 1, 0, <<<<>>>>)

\* tokens.index(word), word in tokens, ['FALSE', 'TRUE'][b]
index(tokens, word) ==
    CHOOSE j \in 1..Len(tokens) : tokens[j] = <<word>> /\ \A i \in 1..(j - 1) : tokens[i] # <<word>>
InTokens(tokens, word) == \E j \in 1..Len(tokens) : tokens[j] = <<word>>
Resolved(b) == IF b THEN <<"TRUE">> ELSE <<"FALSE">>
\* tokens[:i-1] + [resolved] + tokens[i+2:], for the operator at i
Reduce(tokens, i, resolved) ==
    SubSeq(tokens, 1, i - 2) \o <<resolved>> \o SubSeq(tokens, i + 2, Len(tokens))

\* DataTypeQuery.parse(query, ref_type) and DataTypeQuery.evaluate(expr,
\* ref_type) for the queries the source does not raise on: the three loops
\* of parse, each reducing the first operator of its kind, then the
\* evaluation of the token that is left
RECURSIVE parseNot(_, _), parseAnd(_, _), parseOr(_, _), parseOrBeforeAnd(_, _), evaluate(_, _)
parseOr(tokens, ref_type) ==
    IF InTokens(tokens, "OR")
    THEN parseOr(Reduce(tokens, index(tokens, "OR"),
                        Resolved(evaluate(tokens[index(tokens, "OR") - 1], ref_type)
                                 \/ evaluate(tokens[index(tokens, "OR") + 1], ref_type))),
                 ref_type)
    ELSE evaluate(tokens[1], ref_type)
\* the loops of AND and OR in one: the first OR is reduced before any AND
parseOrBeforeAnd(tokens, ref_type) ==
    IF InTokens(tokens, "OR")
    THEN parseOrBeforeAnd(Reduce(tokens, index(tokens, "OR"),
                                 Resolved(evaluate(tokens[index(tokens, "OR") - 1], ref_type)
                                          \/ evaluate(tokens[index(tokens, "OR") + 1], ref_type))),
                          ref_type)
    ELSE IF InTokens(tokens, "AND")
    THEN parseOrBeforeAnd(Reduce(tokens, index(tokens, "AND"),
                                 Resolved(evaluate(tokens[index(tokens, "AND") - 1], ref_type)
                                          /\ evaluate(tokens[index(tokens, "AND") + 1], ref_type))),
                          ref_type)
    ELSE evaluate(tokens[1], ref_type)
parseAnd(tokens, ref_type) ==
    IF InTokens(tokens, "AND")
    THEN parseAnd(Reduce(tokens, index(tokens, "AND"),
                         Resolved(evaluate(tokens[index(tokens, "AND") - 1], ref_type)
                                  /\ evaluate(tokens[index(tokens, "AND") + 1], ref_type))),
                  ref_type)
    ELSE parseOr(tokens, ref_type)
parseNot(tokens, ref_type) ==
    IF InTokens(tokens, "NOT")
    THEN parseNot(SubSeq(tokens, 1, index(tokens, "NOT") - 1)
                      \o <<Resolved(~evaluate(tokens[index(tokens, "NOT") + 1], ref_type))>>
                      \o SubSeq(tokens, index(tokens, "NOT") + 2, Len(tokens)),
                  ref_type)
    ELSE parseAnd(tokens, ref_type)
evaluate(expr, ref_type) ==
    IF expr = <<"TRUE">> THEN TRUE
    ELSE IF expr = <<"FALSE">> THEN FALSE
    ELSE IF Len(expr) > 0 /\ expr[1] = "(" /\ expr[Len(expr)] = ")"
    THEN parseNot(tokenize(SubSeq(expr, 2, Len(expr) - 1)), ref_type)
    ELSE evaluateSingle(expr, ref_type)
parse(query, ref_type) == parseNot(tokenize(query), ref_type)

\* DataTypeQuery.exec(ref_type)
exec(query, ref_type) == parse(query, ref_type)

\* InstanceDataCollection.filter(query, confirmed_only) on the collection col
RECURSIVE Matching(_, _, _, _)
Matching(g, col, query, confirmed_only) ==
    IF col = <<>> THEN <<>>
    ELSE LET d == col[1]
             rest == Matching(g, Tail(col), query, confirmed_only)
         IN  IF (g.data[d].confirmed \/ ~confirmed_only) /\ exec(query, g.data[d].type)
             THEN <<d>> \o rest ELSE rest
filter(g, col, query, confirmed_only) == Matching(g, col, query, confirmed_only)

\* the files list export_yml writes for one instance
ExportFile(g, d) ==
    [path |-> g.dc[g.data[d].dc].path,
     type |-> toString(g.data[d].type),
     confirmed |-> g.data[d].confirmed,
     dc |-> asDict(g.dc, g.data[d].dc),
     has_bundle |-> g.data[d].bundle # 0,
     bundle |-> IF g.data[d].bundle = 0 THEN [path |-> EmptyPath, dc |-> <<>>]
                ELSE [path |-> abspath(g.dc, g.bundle[g.data[d].bundle].dc),
                      dc |-> asDict(g.dc, g.bundle[g.data[d].bundle].dc)]]

ExportInstance(g, i) ==
    [attr |-> g.inst[i].attr,
     dc |-> [path |-> g.dc[g.inst[i].dc].path, base |-> g.dc[g.inst[i].dc].base],
     files |-> [k \in 1..Len(g.inst[i].data) |-> ExportFile(g, g.inst[i].data[k])]]

\* DataHandler.export_yml: the list of instance records
export_yml(g, h) ==
    LET all == <<g.hnd[h].globalInstance>> \o g.hnd[h].instances
    IN  [k \in 1..Len(all) |-> ExportInstance(g, all[k])]

\* DirectoryChain.fromDict: rebuilds the chain as new nodes, the root first;
\* the node of the dict itself is the last one of the heap
RECURSIVE fromDict(_, _)
fromDict(c, d) ==
    IF Len(d) = 1 THEN Append(c, DirectoryChain(d[1].path, d[1].base, 0))
    ELSE LET c1 == fromDict(c, Tail(d))
         IN  Append(c1, DirectoryChain(d[1].path, d[1].base, Len(c1)))

\* import_yml, one file record of instance i; r = [g, raised]
\* faulty variant: every loaded file is confirmed (the amended C4 fails
\* under it)
ImportConfirmAlways(g, fs, d, f, check_files, confirm_files) ==
    [g |-> confirm(g, d), raised |-> FALSE]
ImportConfirm(g, fs, d, f, check_files, confirm_files) ==
    IF confirm_files
    THEN [g |-> IF Exists(fs, DataAbspath(g, d)) THEN confirm(g, d) ELSE g, raised |-> FALSE]
    ELSE IF f.confirmed
        THEN IF check_files /\ ~Exists(fs, DataAbspath(g, d))
             THEN [g |-> g, raised |-> TRUE]
             ELSE [g |-> confirm(g, d), raised |-> FALSE]
    ELSE [g |-> g, raised |-> FALSE]

\* the bundle of a file record: a new bundle of instance i whose chain is
\* replaced by the copy fromDict makes, c2 the heap with that copy
ImportBundleChain(g1, c2) == [g1 EXCEPT !.dc = c2, !.bundle[Len(g1.bundle)].dc = Len(c2)]
ImportBundleNew(g1, f) == ImportBundleChain(g1, fromDict(g1.dc, f.bundle.dc))
ImportBundle(g, i, f) ==
    IF f.has_bundle THEN ImportBundleNew(InstanceDataBundle__init__(g, f.bundle.path, i, 0), f)
    ELSE g
\* r the result of the constructor of the file
ImportData(r, fs, f, check_files, confirm_files) ==
    IF r.raised # "no" THEN [g |-> r.g, raised |-> TRUE]
    ELSE ImportConfirm(r.g, fs, r.id, f, check_files, confirm_files)
\* gb the graph with the bundle of the file, t the result of fromString
ImportTyped(gb, fs, i, f, t, check_files, confirm_files) ==
    IF t.raised THEN [g |-> gb, raised |-> TRUE]
    ELSE ImportData(InstanceData__init__(gb, fs, f.path, t.type, i,
                                         IF f.has_bundle THEN Len(gb.bundle) ELSE 0, 0, FALSE),
                    fs, f, check_files, confirm_files)
ImportFile(g, fs, i, f, check_files, confirm_files) ==
    ImportTyped(ImportBundle(g, i, f), fs, i, f, fromString(f.type), check_files, confirm_files)

\* the loop over the file records of one instance; r the result of the
\* record before files[k], [g, raised]
RECURSIVE ImportFiles(_, _, _, _, _, _, _)
ImportFiles(r, fs, i, files, k, check_files, confirm_files) ==
    IF r.raised \/ k > Len(files) THEN r
    ELSE ImportFiles(ImportFile(r.g, fs, i, files[k], check_files, confirm_files),
                     fs, i, files, k + 1, check_files, confirm_files)

\* the instance of a record: the global instance, or a new instance added
\* to handler h (the last of the heap)
ImportInstanceAdd(gn, h, rec) ==
    DataHandler_addInstance([gn EXCEPT !.inst[Len(gn.inst)].attr = rec.attr], h, Len(gn.inst))
ImportInstance(g, h, rec) ==
    IF rec.attr # GlobalId THEN ImportInstanceAdd(Instance__init__(g, rec.dc.path), h, rec) ELSE g
ImportRecord(g1, fs, h, rec, check_files, confirm_files) ==
    ImportFiles([g |-> g1, raised |-> FALSE], fs,
                IF rec.attr # GlobalId THEN Len(g1.inst) ELSE g1.hnd[h].globalInstance,
                rec.files, 1, check_files, confirm_files)

\* the loop over the instance records; r the result of the record before
\* snap[k]
RECURSIVE ImportInstances(_, _, _, _, _, _, _)
ImportInstances(r, fs, h, snap, k, check_files, confirm_files) ==
    IF r.raised \/ k > Len(snap) THEN r
    ELSE ImportInstances(ImportRecord(ImportInstance(r.g, h, snap[k]), fs, h, snap[k],
                                      check_files, confirm_files),
                         fs, h, snap, k + 1, check_files, confirm_files)

\* DataHandler.import_yml(path, check_files, confirm_files) of the snapshot snap
import_yml(g, fs, h, snap, check_files, confirm_files) ==
    ImportInstances([g |-> DataHandler_setInstances(g, h, <<>>), raised |-> FALSE],
                    fs, h, snap, 1, check_files, confirm_files)

\* ------------------------------------------------------------------------
\* MLog: lg = [on, module, instance, ilog, mlog]
\*   on: config.logger is set (registered modules, started); module and
\*   instance: the current ones ("" and 0 for None); ilog / mlog: the
\*   instance / module log cache holds messages
\* ------------------------------------------------------------------------
NoLogger == [on |-> FALSE, module |-> "", instance |-> 0, ilog |-> FALSE, mlog |-> FALSE]
StartedLogger == [NoLogger EXCEPT !.on = TRUE]

\* MLog.log -> cacheLogMessage, called through Module.log; a no-op (print)
\* without a logger
cacheLogMessage(lg) ==
    IF ~lg.on THEN lg
    ELSE IF lg.module # "" /\ lg.instance = 0 THEN [lg EXCEPT !.mlog = TRUE]
    ELSE IF lg.module # "" /\ lg.instance # 0 THEN [lg EXCEPT !.ilog = TRUE]
    ELSE lg

\* MLog.exportLog(mlabel, instance, log): r = [g, fs, raised]
LogRef == RelPath(<<Seg("mhub_log")>>)
LogFile(mlabel) == RelPath(<<FileSeg(mlabel, "log")>>)
LogType(mlabel) == DataType("LOG", <<[k |-> <<"module">>, v |-> <<mlabel>>]>>)
\* r the result of the constructor of the log file
exportLogWrite(r, fs) ==
    IF r.raised # "no" THEN [g |-> r.g, fs |-> fs, raised |-> TRUE]
    ELSE [g |-> confirm(r.g, r.id),
          fs |-> makedirs(r.g.dc, fs, r.g.data[r.id].dc) \cup {DataAbspath(r.g, r.id)},
          raised |-> FALSE]
\* g1 the graph with the bundle mhub_log, the last of the heap
exportLogData(g1, fs, mlabel, i) ==
    exportLogWrite(InstanceData__init__(g1, fs, LogFile(mlabel), LogType(mlabel), i,
                                        Len(g1.bundle), 0, TRUE), fs)
exportLog(g, fs, mlabel, i) == exportLogData(Instance_getDataBundle(g, i, LogRef), fs, mlabel, i)

\* MLog.startModule(module): r = [lg, raised]
startModule(lg, module) ==
    IF lg.module # "" THEN [lg |-> lg, raised |-> TRUE]
    ELSE [lg |-> [lg EXCEPT !.module = module], raised |-> FALSE]

\* MLog.startInstance(instance)
startInstance(lg, i) ==
    IF lg.instance # 0 \/ lg.module = "" THEN [lg |-> lg, raised |-> TRUE]
    ELSE [lg |-> [lg EXCEPT !.instance = i], raised |-> FALSE]

\* MLog.exportInstanceLog, r the result of exportLog
exportInstanceLog(r, lg) ==
    IF r.raised THEN [g |-> r.g, fs |-> r.fs, lg |-> lg, raised |-> TRUE]
    ELSE [g |-> r.g, fs |-> r.fs, lg |-> [lg EXCEPT !.ilog = FALSE, !.instance = 0],
          raised |-> FALSE]

\* MLog.finishInstance(instance): r = [g, fs, lg, raised]
finishInstance(g, fs, lg, i) ==
    IF lg.instance # i \/ lg.module = "" THEN [g |-> g, fs |-> fs, lg |-> lg, raised |-> TRUE]
    ELSE IF ~lg.ilog THEN [g |-> g, fs |-> fs, lg |-> [lg EXCEPT !.instance = 0], raised |-> FALSE]
    ELSE exportInstanceLog(exportLog(g, fs, lg.module, i), lg)

\* MLog.exportModuleLog, r the result of exportLog
exportModuleLog(r, lg) ==
    IF r.raised THEN [g |-> r.g, fs |-> r.fs, lg |-> lg, raised |-> TRUE]
    ELSE [g |-> r.g, fs |-> r.fs, lg |-> [lg EXCEPT !.mlog = FALSE, !.module = ""],
          raised |-> FALSE]

\* MLog.finishModule(module), h the data handler
finishModule(g, fs, lg, h, module) ==
    IF lg.module # module THEN [g |-> g, fs |-> fs, lg |-> lg, raised |-> TRUE]
    ELSE IF ~lg.mlog THEN [g |-> g, fs |-> fs, lg |-> [lg EXCEPT !.module = ""], raised |-> FALSE]
    ELSE exportModuleLog(exportLog(g, fs, lg.module, g.hnd[h].globalInstance), lg)

\* ------------------------------------------------------------------------
\* the IO binding layer
\*   a step is declared by the decorators below @IO.Instance(), the
\*   outermost first; "" is None for a parameter name, NoBase for a bundle
\*   st = [g, fs, kwargs, outs, made, binds, refs, raised] is the state of one
\*   call of the decorated task for instance i: the graph, the file system,
\*   the keyword arguments bound so far, the outputs handed to the body,
\*   every InstanceData constructed, the inputs bound with their confirmed
\*   flag at binding, for every InstanceData constructed its reference and
\*   the declared type, and the exception raised ("no" if none)
\* ------------------------------------------------------------------------
Literal(p) == [kind |-> "literal", p |-> p]
Basename == [kind |-> "[basename]", p |-> EmptyPath]

Input(name, dtype) ==
    [kind |-> "Input", name |-> name, dtype |-> dtype, path |-> Literal(EmptyPath),
     data |-> "", bundle |-> NoBase, auto_increment |-> FALSE]
Inputs(name, dtype) ==
    [kind |-> "Inputs", name |-> name, dtype |-> dtype, path |-> Literal(EmptyPath),
     data |-> "", bundle |-> NoBase, auto_increment |-> FALSE]
Output(name, path, dtype, data, bundle, auto_increment) ==
    [kind |-> "Output", name |-> name, dtype |-> dtype, path |-> Literal(path),
     data |-> data, bundle |-> bundle, auto_increment |-> auto_increment]
Outputs(name, path, dtype, data, bundle, auto_increment) ==
    [kind |-> "Outputs", name |-> name, dtype |-> dtype, path |-> path,
     data |-> data, bundle |-> bundle, auto_increment |-> auto_increment]

NewCall(g, fs) ==
    [g |-> g, fs |-> fs, kwargs |-> <<>>, outs |-> <<>>, made |-> <<>>, binds |-> <<>>,
     refs |-> <<>>, raised |-> "no"]

HasKw(kwargs, name) == \E j \in 1..Len(kwargs) : kwargs[j].name = name
Kw(kwargs, name) == kwargs[CHOOSE j \in 1..Len(kwargs) : kwargs[j].name = name]
Bound(g, ids) == [j \in 1..Len(ids) |-> [id |-> ids[j], confirmed |-> g.data[ids[j]].confirmed]]

\* IO.Input: kwargs[name] = instance.data.first(dtype), idc the result of
\* the filter
first(st, dec, idc) ==
    IF idc = <<>> THEN [st EXCEPT !.raised = "MHubMissingDataError"]
    ELSE [st EXCEPT !.kwargs = Append(@, [name |-> dec.name, ids |-> <<idc[1]>>, coll |-> FALSE]),
                    !.binds = @ \o Bound(st.g, <<idc[1]>>)]
IO_Input(st, i, dec) == first(st, dec, filter(st.g, st.g.inst[i].data, dec.dtype, FALSE))

\* IO.Inputs: kwargs[name] = instance.data.filter(dtype)
IO_InputsBind(st, dec, idc) ==
    [st EXCEPT !.kwargs = Append(@, [name |-> dec.name, ids |-> idc, coll |-> TRUE]),
               !.binds = @ \o Bound(st.g, idc)]
IO_Inputs(st, i, dec) == IO_InputsBind(st, dec, filter(st.g, st.g.inst[i].data, dec.dtype, FALSE))

\* the type of an output: the declared type with the tags of the reference
\* laid under it
OutType(g, ref, t) ==
    DataType(t.ftype, Meta__add__(IF ref # 0 THEN g.data[ref].type.meta ELSE <<>>, t.meta))

\* the tags of the reference after ref.type.meta + o was evaluated
\* faulty variant: the sum is taken with ref.type.meta.ext(o), which extends
\* the Meta of the reference itself (C29 fails under it)
ExtendsOperand(m, o) == Meta__add__(m, o)
\* Meta.__add__ extends a new Meta by both operands and leaves them as they are
LeavesOperand(m, o) == m
\* the graph after the type of an output with reference ref was made
RefAfterOutType(g, ref, t) ==
    IF ref = 0 THEN g ELSE [g EXCEPT !.data[ref].type.meta = LeavesOperand(@, t.meta)]

\* IO.Output, up to the call of the wrapped function
\* r the result of the constructor of the output
IO_OutputMade(st, dec, r) ==
    IF r.raised # "no"
    THEN [st EXCEPT !.g = r.g, !.made = Append(@, r.id),
                    !.raised = IF r.raised = "assert" THEN "AssertionError" ELSE "Exception"]
    ELSE [st EXCEPT !.g = r.g,
                    !.fs = makedirs(r.g.dc, st.fs, r.g.data[r.id].dc),
                    !.made = Append(@, r.id),
                    !.outs = Append(@, r.id),
                    !.kwargs = Append(@, [name |-> dec.name, ids |-> <<r.id>>, coll |-> FALSE])]
\* g1 the graph with the bundle of the output, if one is declared
IO_OutputNew(st, i, dec, ref, type, g1) ==
    IO_OutputMade(st, dec,
                  InstanceData__init__(g1, st.fs, dec.path.p, type, i,
                                       IF dec.bundle.isset THEN Len(g1.bundle) ELSE 0, ref,
                                       dec.auto_increment))
IO_OutputBundle(st, i, dec, ref) ==
    IF ~dec.bundle.isset THEN st.g
    ELSE IF ref # 0 THEN InstanceData_getDataBundle(st.g, ref, dec.bundle.p)
    ELSE Instance_getDataBundle(st.g, i, dec.bundle.p)
\* ref the reference data (0 for None), t the result of fromString
IO_OutputTyped(st, i, dec, ref, t) ==
    IF t.raised THEN [st EXCEPT !.raised = "ValueError"]
    ELSE IO_OutputNew([st EXCEPT !.refs = Append(@, [ref |-> ref, declared |-> t.type])],
                      i, dec, ref, OutType(st.g, ref, t.type),
                      IO_OutputBundle([st EXCEPT !.g = RefAfterOutType(st.g, ref, t.type)], i, dec, ref))
IO_Output(st, i, dec) ==
    IF dec.data # "" /\ Kw(st.kwargs, dec.data).coll THEN [st EXCEPT !.raised = "AssertionError"]
    ELSE IO_OutputTyped(st, i, dec, IF dec.data # "" THEN Kw(st.kwargs, dec.data).ids[1] ELSE 0,
                        fromString(dec.dtype))

\* the path of one output of IO.Outputs: the placeholders of the template
\* are replaced by the base name of the reference / its part before the
\* first dot
OnePath(template, refpath) ==
    LET bn == SplitTail(refpath)
    IN  CASE template.kind = "[basename]" -> RelPath(<<bn>>)
          [] template.kind = "[filename]" -> RelPath(<<[bn EXCEPT !.ext = ""]>>)
          [] OTHER -> template.p

\* IO.Outputs, one round of the loop over the reference collection
\* r the result of the constructor of the output of reference one; the
\* result is [st, idc]
IO_OutputsMade(st, idc, fs1, r) ==
    IF r.raised # "no"
    THEN [st |-> [st EXCEPT !.g = r.g, !.fs = fs1, !.made = Append(@, r.id),
                            !.raised = IF r.raised = "assert" THEN "AssertionError"
                                       ELSE "Exception"],
          idc |-> idc]
    ELSE [st |-> [st EXCEPT !.g = r.g, !.fs = fs1, !.made = Append(@, r.id)],
          idc |-> CollectionAdd(idc, r.id)]
\* g1 the graph with the bundle of the output, b that bundle (0 for None),
\* fs1 the file system with its directory, t the result of fromString
IO_OutputsNew(st, i, dec, one, idc, g1, b, fs1, t) ==
    IF t.raised THEN [st |-> [st EXCEPT !.g = g1, !.fs = fs1, !.raised = "ValueError"], idc |-> idc]
    ELSE IO_OutputsMade([st EXCEPT !.refs = Append(@, [ref |-> one, declared |-> t.type])], idc, fs1,
                        InstanceData__init__(RefAfterOutType(g1, one, t.type), fs1,
                                             OnePath(dec.path, DataAbspath(st.g, one)),
                                             OutType(st.g, one, t.type), i, b, one,
                                             dec.auto_increment))
IO_OutputsDir(g1, fs, b) ==
    IF b # 0 /\ ~Exists(fs, abspath(g1.dc, g1.bundle[b].dc))
    THEN fs \cup {abspath(g1.dc, g1.bundle[b].dc)} ELSE fs
IO_OutputsBundle(st, i, dec, one, idc, g1, b) ==
    IO_OutputsNew(st, i, dec, one, idc, g1, b, IO_OutputsDir(g1, st.fs, b), fromString(dec.dtype))
IO_OutputsOne(st, i, dec, one, idc, g1) ==
    IO_OutputsBundle(st, i, dec, one, idc, g1, IF dec.bundle.isset THEN Len(g1.bundle) ELSE 0)
IO_OutputsRound(st, i, dec, one, idc) ==
    IO_OutputsOne(st, i, dec, one, idc,
                  IF dec.bundle.isset THEN InstanceData_getDataBundle(st.g, one, dec.bundle.p)
                  ELSE st.g)

\* the loop: x = [st, idc] after the rounds of the references before refs
RECURSIVE OutputsLoop(_, _, _, _)
OutputsLoop(x, i, dec, refs) ==
    IF x.st.raised # "no" THEN x.st
    ELSE IF refs = <<>>
        THEN [x.st EXCEPT !.outs = @ \o x.idc,
                          !.kwargs = Append(@, [name |-> dec.name, ids |-> x.idc, coll |-> TRUE])]
    ELSE OutputsLoop(IO_OutputsRound(x.st, i, dec, refs[1], x.idc), i, dec, Tail(refs))

\* IO.Outputs, up to the call of the wrapped function
IO_Outputs(st, i, dec) ==
    IF dec.data = "" \/ ~Kw(st.kwargs, dec.data).coll THEN [st EXCEPT !.raised = "AssertionError"]
    ELSE OutputsLoop([st |-> st, idc |-> <<>>], i, dec, Kw(st.kwargs, dec.data).ids)

\* the wrappers of the decorators k.. of the declaration, each calling the
\* next one, up to the call of the task body
Wrapper(st, i, dec) ==
    CASE dec.kind = "Input" -> IO_Input(st, i, dec)
      [] dec.kind = "Inputs" -> IO_Inputs(st, i, dec)
      [] dec.kind = "Output" -> IO_Output(st, i, dec)
      [] OTHER -> IO_Outputs(st, i, dec)
RECURSIVE Wrappers(_, _, _, _)
Wrappers(st, i, decl, k) ==
    IF st.raised # "no" \/ k > Len(decl) THEN st
    ELSE Wrappers(Wrapper(st, i, decl[k]), i, decl, k + 1)

\* after the body has returned: every output whose path exists is confirmed
RECURSIVE ConfirmAll(_, _)
ConfirmAll(g, outs) == IF outs = <<>> THEN g ELSE ConfirmAll(confirm(g, outs[1]), Tail(outs))
\* faulty variant: the outputs are confirmed without a look at the disk (C2
\* fails under it)
ConfirmOutputsUnchecked(g, fs, outs) == ConfirmAll(g, outs)
RECURSIVE ConfirmOutputs(_, _, _)
ConfirmOutputs(g, fs, outs) ==
    IF outs = <<>> THEN g
    ELSE ConfirmOutputs(IF Exists(fs, DataAbspath(g, outs[Len(outs)])) THEN confirm(g, outs[Len(outs)]) ELSE g,
                        fs, SubSeq(outs, 1, Len(outs) - 1))

\* ------------------------------------------------------------------------
\* state
\* ------------------------------------------------------------------------
VARIABLES
    dcs,        \* heap of DirectoryChain nodes
    hnds,       \* heap of DataHandler objects
    insts,      \* heap of Instance objects
    bundles,    \* heap of InstanceDataBundle objects
    datas,      \* heap of InstanceData objects
    disk,       \* the paths that exist on the file system
    snapshot,   \* the last snapshot written by export_yml
    last,       \* the last operation: its arguments and how it ended
    nops,       \* number of operations done so far
    pc,         \* where the workflow is: "idle" between two steps, inside
                \* IO.Instance "prepare", "body", "confirm", "except",
                \* "finally", then "finish"; "crashed" once Module.execute
                \* has raised
    cur,        \* the step run in progress: its module, the instance list
                \* iterated, the position in it, the outputs of the call
    logger,     \* config.logger
    hist,       \* one record per call of a task for an instance
    workflow,   \* the modules of the workflow, in execution order
    run,        \* number of modules started
    faults      \* number of task bodies that raised or wrote nothing

gvars == <<dcs, hnds, insts, bundles, datas>>
wvars == <<pc, cur, logger, hist, workflow, run, faults>>
vars == <<dcs, hnds, insts, bundles, datas, disk, snapshot, last, nops,
          pc, cur, logger, hist, workflow, run, faults>>

G == [dc |-> dcs, hnd |-> hnds, inst |-> insts, bundle |-> bundles, data |-> datas]
SetG(g) ==
    /\ dcs' = g.dc
    /\ hnds' = g.hnd
    /\ insts' = g.inst
    /\ bundles' = g.bundle
    /\ datas' = g.data

SetGInit(g) ==
    /\ dcs = g.dc
    /\ hnds = g.hnd
    /\ insts = g.inst
    /\ bundles = g.bundle
    /\ datas = g.data

NoOp == [op |-> "none"]
NoType == DataType("NONE", <<>>)

\* names used in the scenarios
DataBase == AbsPath(<<Seg("data")>>)
OtherBase == AbsPath(<<Seg("mnt")>>)
Case(k) == RelPath(<<Seg("case"), Seg(IF k = 1 THEN "1" ELSE IF k = 2 THEN "2" ELSE "3")>>)
OutTxt == RelPath(<<FileSeg("out", "txt")>>)
OutTxtN(s) == RelPath(<<[name |-> "out", sfx |-> s, ext |-> "txt"]>>)
SegRef == RelPath(<<Seg("seg")>>)

\* ------------------------------------------------------------------------
\* SpecCtor: InstanceData construction on a prepared graph
\*   handler 1 at /data with instances 2 (case/1) and 3 (case/2);
\*   instance 1 is the global instance
\* ------------------------------------------------------------------------
CtorGraph ==
    LET g1 == DataHandler__init__(EmptyGraph, DataBase)
        g2 == DataHandler_addInstance(Instance__init__(g1, Case(1)), 1, 2)
        g3 == DataHandler_addInstance(Instance__init__(g2, Case(2)), 1, 3)
        g4 == Instance_getDataBundle(g3, 2, SegRef)
        g5 == Instance_getDataBundle(g4, 3, SegRef)
    IN  g5

\* files found in the directory of instance 2 before the run
CaseDir == Join(DataBase, Case(1))
DiskChoices ==
    { {},
      {Join(CaseDir, OutTxt)},
      {Join(CaseDir, OutTxt), Join(CaseDir, OutTxtN(<<1>>))},
      {Join(CaseDir, OutTxt)} \cup {Join(CaseDir, OutTxtN(<<k>>)) : k \in 1..(MaxAttempts - 1)},
      {Join(CaseDir, OutTxt)} \cup {Join(CaseDir, OutTxtN(<<k>>)) : k \in 1..MaxAttempts} }

\* no workflow is running
NoRun == [step |-> "", list |-> <<>>, k |-> 0, outs |-> <<>>]
IdleInit ==
    /\ pc = "idle"
    /\ cur = NoRun
    /\ logger = NoLogger
    /\ hist = <<>>
    /\ workflow = <<>>
    /\ run = 0
    /\ faults = 0

InitCtor ==
    /\ SetGInit(CtorGraph)
    /\ disk \in DiskChoices
    /\ snapshot = <<>>
    /\ last = NoOp
    /\ nops = 0
    /\ IdleInit

CtorPaths == {OutTxt, OutTxtN(<<1>>)}

\* InstanceData(path, type, instance, bundle, data, auto_increment)
CtorNew(path, i, b, d, auto) ==
    /\ Len(datas) < MaxCtorData
    /\ \E r \in {InstanceData__init__(G, disk, path, NoType, i, b, d, auto)} :
           /\ SetG(r.g)
           /\ last' = [op |-> "new", path |-> path, instance |-> i, bundle |-> b,
                       data |-> d, auto |-> auto, id |-> r.id, raised |-> r.raised]
    /\ nops' = nops + 1
    /\ UNCHANGED <<disk, snapshot>>
    /\ UNCHANGED wvars

NextCtor ==
    \E path \in CtorPaths, i \in {0, 2, 3}, b \in 0..Len(bundles), d \in 0..Len(datas), auto \in BOOLEAN :
        CtorNew(path, i, b, d, auto)

SpecCtor == InitCtor /\ [][NextCtor]_vars

\* ------------------------------------------------------------------------
\* properties of InstanceData construction (SpecCtor)
\* ------------------------------------------------------------------------
IsNew == last.op = "new"
NewId == last.id

\* the owner the arguments of the last construction designate
ExpBundle ==
    IF last.bundle # 0 THEN last.bundle
    ELSE IF last.data # 0 /\ datas[last.data].bundle # 0 THEN datas[last.data].bundle
    ELSE 0
ExpInstance ==
    IF ExpBundle # 0 THEN bundles[ExpBundle].instance
    ELSE IF last.instance # 0 THEN last.instance
    ELSE IF last.data # 0 THEN datas[last.data].instance
    ELSE 0

\* C5: a construction that succeeds with some owner argument links the new
\* data to exactly one owner, chosen as bundle > data.bundle > instance >
\* data.instance: it is in the collection of that owner's instance only and
\* its chain parent is the bundle's chain if owned through a bundle, the
\* instance's chain otherwise.
C5_OwnerPriority ==
    (IsNew /\ last.raised = "no" /\ (last.bundle # 0 \/ last.data # 0 \/ last.instance # 0)) =>
        /\ ExpInstance # 0
        /\ datas[NewId].instance = ExpInstance
        /\ datas[NewId].bundle = ExpBundle
        /\ \A j \in 1..Len(insts) : InSeq(NewId, insts[j].data) <=> j = ExpInstance
        /\ dcs[datas[NewId].dc].parent =
              (IF ExpBundle # 0 THEN bundles[ExpBundle].dc ELSE insts[ExpInstance].dc)

C5_Witness ==
    /\ IsNew /\ last.raised = "no"
    /\ last.bundle = 0 /\ last.data # 0 /\ last.instance # 0
    /\ datas[last.data].bundle # 0
    /\ dcs[datas[NewId].dc].parent = bundles[datas[last.data].bundle].dc

\* the owner arguments of the last construction contradict each other
Inconsistent ==
    \/ last.bundle # 0 /\ last.instance # 0 /\ bundles[last.bundle].instance # last.instance
    \/ last.data # 0 /\ last.instance # 0 /\ datas[last.data].instance # last.instance
    \/ last.data # 0 /\ last.bundle # 0 /\ datas[last.data].instance # bundles[last.bundle].instance

\* C6: a construction whose owner arguments are inconsistent ends in a
\* fatal (assertion) error, in every such combination.
C6_InconsistentOwnersFatal ==
    (IsNew /\ Inconsistent) => last.raised = "assert"

C6_Witness ==
    /\ IsNew /\ last.raised = "assert"
    /\ last.data # 0 /\ last.bundle # 0 /\ last.instance = 0
    /\ datas[last.data].instance # 0
    /\ datas[last.data].instance # bundles[last.bundle].instance

\* the resolved directory of the last constructed data, its requested
\* path, and the candidate name_k.ext beside it
NewParentAbs == abspath(dcs, dcs[datas[NewId].dc].parent)
OrigAbs == Join(NewParentAbs, last.path)
CandAbs(k) ==
    LET t == SplitTail(last.path)
    IN  Join(NewParentAbs,
             Join(SplitHead(last.path),
                  RelPath(<<[name |-> t.name, sfx |-> t.sfx \o <<k>>, ext |-> t.ext]>>)))
\* p exists on disk or is the path of another data of the owner instance
TakenForNew(p) ==
    \/ p \in disk
    \/ \E e \in 1..Len(datas) :
          /\ e # NewId
          /\ InSeq(e, insts[datas[NewId].instance].data)
          /\ DataAbspath(G, e) = p
FreeCands == {k \in 1..MaxAttempts : ~TakenForNew(CandAbs(k))}
MinOf(S) == CHOOSE k \in S : \A m \in S : k <= m

\* C7: with auto_increment and a taken path, the data gets name_k.ext for
\* the least k in 1..100 whose candidate is free; if no candidate up to 100
\* is free the construction fails.
C7_AutoIncrement ==
    (/\ IsNew /\ last.auto /\ last.raised \in {"no", "nofree"}
     /\ datas[NewId].instance # 0
     /\ TakenForNew(OrigAbs)) =>
        IF FreeCands = {} THEN last.raised = "nofree"
        ELSE last.raised = "no" /\ DataAbspath(G, NewId) = CandAbs(MinOf(FreeCands))

\* the path collided twice (on disk) and the data got name_2.ext
C7_Witness ==
    /\ IsNew /\ last.auto /\ last.raised = "no"
    /\ last.path = OutTxt
    /\ datas[NewId].instance = 2 /\ datas[NewId].bundle = 0
    /\ OrigAbs \in disk /\ CandAbs(1) \in disk
    /\ DataAbspath(G, NewId) = Join(CaseDir, OutTxtN(<<2>>))

\* reached: the construction gave up after 100 candidates
C7_Exhausted == ~(IsNew /\ last.raised = "nofree")
\* reached: candidate 100 is still accepted
C7_Hundredth == ~(IsNew /\ last.raised = "no" /\ DataAbspath(G, NewId) = Join(CaseDir, OutTxtN(<<MaxAttempts>>)))

\* ------------------------------------------------------------------------
\* Spec: a workflow of modules whose task is wrapped by IO.Instance, run by
\* Module.execute one after the other on handler 1 with three instances
\* ------------------------------------------------------------------------
MaxFaults == 1

QIn == <<"txt", ":", "k", "=", "in">>
QOut == <<"txt", ":", "k", "=", "out">>
QAnyOut == <<"txt", ":", "k", "=", "out", "|", "out2">>
TIn == DataType("TXT", <<[k |-> <<"k">>, v |-> <<"in">>], [k |-> <<"mod">>, v |-> <<"ct">>]>>)
InTxt == RelPath(<<FileSeg("in", "txt")>>)

\* the decorators of the task of each module
Decl(step) ==
    CASE step = "S1" ->
            <<Input("in_data", QIn),
              Output("out_data", OutTxt, <<"txt", ":", "k", "=", "out">>, "in_data", NoBase, TRUE)>>
      [] step = "S2" ->
            <<Input("in_data", QOut),
              Output("out_data", OutTxt, <<"txt", ":", "k", "=", "out2">>, "in_data", NoBase, TRUE)>>
      [] step = "S4" -> <<>>
      [] step = "S5" -> <<>>
      [] OTHER ->
            <<Inputs("in_datas", QAnyOut),
              Outputs("out_datas", Basename, <<"txt", ":", "k", "=", "seg">>, "in_datas",
                      SomeBase(SegRef), TRUE)>>

\* IO.Instance(include_global_instance=True), as the task of DataOrganizer
include_global_instance(step) == step = "S4"

Workflows == {<<"S1", "S2", "S3">>, <<"S2", "S1", "S3">>, <<"S4", "S1">>}

\* an importer has registered the instance at path with its confirmed
\* input file
ConfirmNew(r) == confirm(r.g, r.id)
WithInput(g1) == ConfirmNew(InstanceData__init__(g1, {}, InTxt, TIn, Len(g1.inst), 0, 0, FALSE))
WithCase(g, h, path) ==
    WithInput(DataHandler_addInstance(Instance__init__(g, path), h, Len(g.inst) + 1))

FlowGraph ==
    WithCase(WithCase(WithCase(DataHandler__init__(EmptyGraph, DataBase), 1, Case(1)), 1, Case(2)),
             1, Case(3))

InputFiles == {Join(Join(DataBase, Case(k)), InTxt) : k \in 1..3}
NamesOf(dir, name, ext) ==
    {Join(dir, RelPath(<<FileSeg(name, ext)>>))}
        \cup {Join(dir, RelPath(<<[name |-> name, sfx |-> <<k>>, ext |-> ext]>>)) : k \in 1..MaxAttempts}

\* what the data directory holds before the workflow starts: the inputs; an
\* out.txt left in case/1; every name of out.txt taken in case/2; every name
\* of the log of S1, or of S2, taken in case/2
FlowDisks ==
    { InputFiles,
      InputFiles \cup {Join(Join(DataBase, Case(1)), OutTxt)},
      InputFiles \cup NamesOf(Join(DataBase, Case(2)), "out", "txt"),
      InputFiles \cup NamesOf(Join(Join(DataBase, Case(2)), LogRef), "S1", "log"),
      InputFiles \cup NamesOf(Join(Join(DataBase, Case(2)), LogRef), "S2", "log") }

Init ==
    /\ SetGInit(FlowGraph)
    /\ disk \in FlowDisks
    /\ snapshot = <<>>
    /\ last = NoOp
    /\ nops = 0
    /\ pc = "idle"
    /\ cur = NoRun
    /\ logger \in {NoLogger, StartedLogger}
    /\ hist = <<>>
    /\ workflow \in Workflows
    /\ run = 0
    /\ faults = 0

\* the list of the handler walked from its end
LastInstanceFirst == cur.list[Len(cur.list) + 1 - cur.k]

\* IO.Instance: the instance of the present round of the loop
CurInstance == cur.list[cur.k]

\* the loop over the registered instances skipped after the global instance
GlobalInstanceOnly(list) == "finish"

\* IO.Instance: the loop over config.data.instances starts
InstanceLoop(list) == IF list = <<>> THEN "finish" ELSE "prepare"

\* Module.execute() up to the first call of IO.Instance
StartStep ==
    /\ pc = "idle"
    /\ run < Len(workflow)
    /\ \E step \in {workflow[run + 1]} :
       \E sm \in {IF logger.on THEN startModule(logger, step) ELSE [lg |-> logger, raised |-> FALSE]} :
       \E list \in {hnds[1].instances} :
           /\ logger' = IF sm.raised THEN sm.lg ELSE cacheLogMessage(sm.lg)
           /\ cur' = [step |-> step, list |-> list, k |-> IF list = <<>> THEN 0 ELSE 1, outs |-> <<>>]
           /\ pc' = IF sm.raised THEN "crashed"
                    ELSE IF include_global_instance(step) THEN "global"
                    ELSE InstanceLoop(list)
           /\ last' = [op |-> "start", step |-> step]
    /\ run' = run + 1
    /\ UNCHANGED <<gvars, disk, snapshot, nops, hist, workflow, faults>>

\* IO.Instance with include_global_instance: the task is called for the
\* global instance, outside the instance logging, and an exception is logged
\* on the level of the module; then the loop over the instances starts
GlobalCall(raises) ==
    /\ pc = "global"
    /\ raises => faults < MaxFaults
    /\ faults' = IF raises THEN faults + 1 ELSE faults
    /\ hist' = Append(hist, [run |-> run, step |-> cur.step, inst |-> hnds[1].globalInstance,
                             prepared |-> "no", body |-> IF raises THEN "raised" ELSE "returned",
                             wrote |-> FALSE, outs |-> <<>>, made |-> <<>>, binds |-> <<>>,
                             refs |-> <<>>, clash |-> FALSE,
                             status |-> IF raises THEN "FAILED" ELSE "OUTPUTS_CONFIRMED"])
    /\ logger' = IF raises THEN cacheLogMessage(logger) ELSE logger
    /\ pc' = InstanceLoop(cur.list)
    /\ last' = [op |-> "global", step |-> cur.step, inst |-> hnds[1].globalInstance]
    /\ UNCHANGED <<gvars, disk, snapshot, nops, cur, workflow, run>>

\* IO.Instance for the next instance: startInstance and the wrappers of the
\* declared inputs and outputs, up to the call of the body
Prepare ==
    /\ pc = "prepare"
    /\ \E i \in {CurInstance} :
       \E si \in {IF logger.on THEN startInstance(logger, i) ELSE [lg |-> logger, raised |-> FALSE]} :
       \E st \in {IF si.raised THEN [NewCall(G, disk) EXCEPT !.raised = "AssertionError"]
                  ELSE Wrappers(NewCall(G, disk), i, Decl(cur.step), 1)} :
           /\ SetG(st.g)
           /\ disk' = st.fs
           /\ logger' = si.lg
           /\ cur' = [cur EXCEPT !.outs = st.outs]
           /\ hist' = Append(hist, [run |-> run, step |-> cur.step, inst |-> i, prepared |-> st.raised,
                                    body |-> "none", wrote |-> FALSE, outs |-> st.outs, made |-> st.made,
                                    binds |-> st.binds, refs |-> st.refs,
                                    clash |-> \E j \in 1..Len(st.made) :
                                                Exists(disk, DataAbspath(st.g, st.made[j])),
                                    status |-> IF st.raised = "no" THEN "BODY_RUNNING"
                                                                   ELSE "RAISED"])
           /\ pc' = IF st.raised = "no" THEN "body" ELSE "except"
           /\ last' = [op |-> "prepare", step |-> cur.step, inst |-> i]
    /\ UNCHANGED <<snapshot, nops, workflow, run, faults>>

\* the task body: it writes every output file or none, and returns or raises
Body(writes, raises) ==
    /\ pc = "body"
    /\ cur.step # "S5"
    /\ (~writes \/ raises) => faults < MaxFaults
    /\ faults' = IF ~writes \/ raises THEN faults + 1 ELSE faults
    /\ disk' = IF writes THEN disk \cup {DataAbspath(G, cur.outs[j]) : j \in 1..Len(cur.outs)} ELSE disk
    /\ hist' = [hist EXCEPT ![Len(hist)].body = IF raises THEN "raised" ELSE "returned",
                            ![Len(hist)].wrote = writes,
                            ![Len(hist)].status = IF raises THEN "RAISED" ELSE "RETURNED"]
    /\ pc' = IF raises THEN "except" ELSE "confirm"
    /\ last' = [op |-> "body", step |-> cur.step, inst |-> CurInstance]
    /\ UNCHANGED <<gvars, snapshot, nops, cur, logger, workflow, run>>

\* the task of FileRemover, step S5, configured with the query RemoverQuery:
\* the matching files are filtered and listed in the log, then
\* instance.data.remove(datas, delete_files=True) is called, a method that
\* InstanceDataCollection does not have: AttributeError
RemoverQuery == QIn
FileRemoverTask ==
    /\ pc = "body"
    /\ cur.step = "S5"
    /\ logger' = cacheLogMessage(logger)
    /\ hist' = [hist EXCEPT ![Len(hist)].body = "raised",
                            ![Len(hist)].status = "RAISED"]
    /\ pc' = "except"
    /\ last' = [op |-> "body", step |-> cur.step, inst |-> CurInstance]
    /\ UNCHANGED <<gvars, disk, snapshot, nops, cur, workflow, run, faults>>

\* IO.Output / IO.Outputs after the body has returned
Confirm ==
    /\ pc = "confirm"
    /\ SetG(ConfirmOutputs(G, disk, cur.outs))
    /\ hist' = [hist EXCEPT ![Len(hist)].status = "OUTPUTS_CONFIRMED"]
    /\ pc' = "finally"
    /\ last' = [op |-> "confirm", step |-> cur.step, inst |-> CurInstance]
    /\ UNCHANGED <<disk, snapshot, nops, cur, logger, workflow, run, faults>>

\* the except clause of IO.Instance: the error is logged
Except ==
    /\ pc = "except"
    /\ logger' = cacheLogMessage(logger)
    /\ hist' = [hist EXCEPT ![Len(hist)].status = "FAILED"]
    /\ pc' = "finally"
    /\ last' = [op |-> "except", step |-> cur.step, inst |-> CurInstance]
    /\ UNCHANGED <<gvars, disk, snapshot, nops, cur, workflow, run, faults>>

\* the finally clause of IO.Instance: finishInstance, then the next instance
Finally ==
    /\ pc = "finally"
    /\ \E r \in {IF logger.on THEN finishInstance(G, disk, logger, CurInstance)
                  ELSE [g |-> G, fs |-> disk, lg |-> logger, raised |-> FALSE]} :
           /\ SetG(r.g)
           /\ disk' = r.fs
           /\ logger' = r.lg
           /\ pc' = IF r.raised THEN "crashed"
                    ELSE IF cur.k < Len(cur.list) THEN "prepare" ELSE "finish"
           /\ cur' = IF ~r.raised /\ cur.k < Len(cur.list)
                     THEN [cur EXCEPT !.k = cur.k + 1, !.outs = <<>>] ELSE cur
           /\ last' = [op |-> "finally", step |-> cur.step, inst |-> CurInstance]
    /\ UNCHANGED <<snapshot, nops, hist, workflow, run, faults>>

\* Module.execute() after the task has returned
FinishStep ==
    /\ pc = "finish"
    /\ \E r \in {IF logger.on THEN finishModule(G, disk, cacheLogMessage(logger), 1, cur.step)
                  ELSE [g |-> G, fs |-> disk, lg |-> logger, raised |-> FALSE]} :
           /\ SetG(r.g)
           /\ disk' = r.fs
           /\ logger' = r.lg
           /\ pc' = IF r.raised THEN "crashed" ELSE "idle"
           /\ last' = [op |-> "finish", step |-> cur.step]
    /\ cur' = IF pc' = "idle" THEN NoRun ELSE cur
    /\ UNCHANGED <<snapshot, nops, hist, workflow, run, faults>>

StepNext ==
    \/ StartStep
    \/ \E raises \in BOOLEAN : GlobalCall(raises)
    \/ Prepare
    \/ \E writes \in BOOLEAN, raises \in BOOLEAN : Body(writes, raises)
    \/ Confirm
    \/ Except
    \/ Finally
    \/ FinishStep

Next == StepNext

Spec == Init /\ [][Next]_vars

\* ------------------------------------------------------------------------
\* properties of the workflow (Spec)
\* ------------------------------------------------------------------------
Calls == {hist[j] : j \in 1..Len(hist)}
CallsOfRun(r) == {c \in Calls : c.run = r}
Range(seq) == {seq[j] : j \in 1..Len(seq)}
Registered == Range(hnds[1].instances)

\* C1: per-instance isolation. A run of a step never raises out of
\* Module.execute, whatever happens while one instance is processed; once the
\* run is over every registered instance has been processed, and each one
\* whose body returned has every output confirmed whose file exists.
C1_Isolation ==
    /\ pc # "crashed"
    /\ (pc = "idle" /\ run > 0) =>
        \A i \in Registered :
            \E c \in CallsOfRun(run) :
                /\ c.inst = i
                /\ c.status \in {"OUTPUTS_CONFIRMED", "FAILED"}
                /\ c.status = "OUTPUTS_CONFIRMED" =>
                    \A d \in Range(c.outs) : Exists(disk, DataAbspath(G, d)) => datas[d].confirmed

\* the step run raised although some instance is still unprocessed
C1_Aborted ==
    /\ pc = "crashed"
    /\ \E i \in Registered : \A c \in CallsOfRun(run) : c.inst # i

\* a confirmed InstanceData made by a call is an output of a call whose body
\* has returned
C2_Inv ==
    \A c \in Calls : \A d \in Range(c.made) :
        datas[d].confirmed => (c.body = "returned" /\ d \in Range(c.outs))
\* a flag of such an InstanceData is set only by the confirmation of the
\* present call, after its body returned, for a path that exists
C2_Step ==
    \A c \in Calls : \A d \in Range(c.made) :
        (~datas[d].confirmed /\ datas'[d].confirmed) =>
            /\ pc = "confirm"
            /\ c = hist[Len(hist)]
            /\ c.body = "returned"
            /\ Exists(disk, DataAbspath(G, d))

\* C2: confirm-on-success. An output created by IO.Output or IO.Outputs is
\* confirmed only if the body of its call has returned, and its flag is set
\* only by the confirmation that follows the return of that body, for a
\* path that exists at that moment; the outputs of a call whose body raised
\* stay unconfirmed.
C2_ConfirmOnSuccess == []C2_Inv /\ [][C2_Step]_vars

\* the body of one call raised after writing its outputs, which stay
\* unconfirmed; the body of another returned and its outputs are confirmed
C2_Witness ==
    /\ \E c \in Calls :
        /\ c.body = "raised" /\ c.wrote /\ c.outs # <<>>
        /\ \A d \in Range(c.outs) : Exists(disk, DataAbspath(G, d)) /\ ~datas[d].confirmed
    /\ \E c \in Calls :
        /\ c.body = "returned" /\ c.outs # <<>>
        /\ \A d \in Range(c.outs) : datas[d].confirmed

\* C3: every InstanceData bound to a parameter by IO.Input or IO.Inputs was
\* confirmed when it was bound.
C3_ConfirmedInputsOnly ==
    \A c \in Calls : \A j \in 1..Len(c.binds) : c.binds[j].confirmed

\* C8: auto-generated names are unique within an instance: no two
\* InstanceData of an instance resolve to the same abspath, and no output of
\* the binding layer took a path that existed on disk when it was created.
C8_UniqueNames ==
    /\ \A i \in 1..Len(insts) : \A j, k \in 1..Len(insts[i].data) :
          j # k => DataAbspath(G, insts[i].data[j]) # DataAbspath(G, insts[i].data[k])
    /\ \A c \in Calls : ~c.clash

\* ------------------------------------------------------------------------
\* snapshots and changes of the directory chain, between two steps
\* ------------------------------------------------------------------------
MaxSnapOps == 3
MaxChainOps == 3

\* DataHandler.export_yml of handler h
Export(h) ==
    /\ pc = "idle"
    /\ snapshot' = export_yml(G, h)
    /\ last' = [op |-> "export", handler |-> h]
    /\ nops' = nops + 1
    /\ UNCHANGED <<gvars, disk, wvars>>

\* what a snapshot is to reproduce of handler h: its instances with their
\* attributes and resolved paths, and the files of each with type, resolved
\* path, confirmed flag and the resolved path of the bundle they are in
FileView(g, d) ==
    [type |-> g.data[d].type,
     abspath |-> DataAbspath(g, d),
     confirmed |-> g.data[d].confirmed,
     bundle |-> IF g.data[d].bundle = 0 THEN <<>>
                ELSE <<abspath(g.dc, g.bundle[g.data[d].bundle].dc)>>]
InstanceView(g, i) ==
    [attr |-> g.inst[i].attr,
     abspath |-> abspath(g.dc, g.inst[i].dc),
     files |-> [k \in 1..Len(g.inst[i].data) |-> FileView(g, g.inst[i].data[k])]]
GraphView(g, h) ==
    [k \in 1..(Len(g.hnd[h].instances) + 1) |->
        InstanceView(g, (<<g.hnd[h].globalInstance>> \o g.hnd[h].instances)[k])]

\* DataHandler.import_yml(path, check_files, confirm_files) on handler h; an
\* exception ends the program.  The record of the call keeps which handler
\* the snapshot was written from just before, if it was, and what it showed
Import(h, check_files, confirm_files) ==
    /\ pc = "idle"
    /\ snapshot # <<>>
    /\ \E r \in {import_yml(G, disk, h, snapshot, check_files, confirm_files)} :
           /\ SetG(r.g)
           /\ pc' = IF r.raised THEN "crashed" ELSE "idle"
           /\ last' = [op |-> "import", handler |-> h, check_files |-> check_files,
                       confirm_files |-> confirm_files, raised |-> r.raised,
                       source |-> IF last.op = "export" THEN last.handler ELSE 0,
                       exported |-> IF last.op = "export" THEN GraphView(G, last.handler) ELSE <<>>]
    /\ nops' = nops + 1
    /\ UNCHANGED <<disk, snapshot, cur, logger, hist, workflow, run, faults>>

\* the environment removes the file of an InstanceData
Vanish(d) ==
    /\ pc = "idle"
    /\ DataAbspath(G, d) \in disk
    /\ disk' = disk \ {DataAbspath(G, d)}
    /\ last' = [op |-> "vanish", data |-> d]
    /\ nops' = nops + 1
    /\ UNCHANGED <<gvars, snapshot, wvars>>

\* DataHandler.addInstance(instance) of handler h
AddInstance(h, i) ==
    /\ pc = "idle"
    /\ ~InSeq(i, hnds[h].instances)
    /\ SetG(DataHandler_addInstance(G, h, i))
    /\ last' = [op |-> "addInstance", handler |-> h, instance |-> i]
    /\ nops' = nops + 1
    /\ UNCHANGED <<disk, snapshot, wvars>>

\* dc.setPath(path) on the chain node n
SetPath(n, path) ==
    /\ pc = "idle"
    /\ dcs' = setPath(dcs, n, path)
    /\ last' = [op |-> "setPath", node |-> n]
    /\ nops' = nops + 1
    /\ UNCHANGED <<hnds, insts, bundles, datas, disk, snapshot, wvars>>

\* dc.setBase(base) on the chain node n
SetBase(n, base) ==
    /\ pc = "idle"
    /\ dcs' = setBase(dcs, n, base)
    /\ last' = [op |-> "setBase", node |-> n]
    /\ nops' = nops + 1
    /\ UNCHANGED <<hnds, insts, bundles, datas, disk, snapshot, wvars>>

\* dc.makedirs() on the chain node n
Makedirs(n) ==
    /\ pc = "idle"
    /\ disk' = makedirs(dcs, disk, n)
    /\ last' = [op |-> "makedirs", node |-> n, path |-> abspath(dcs, n)]
    /\ nops' = nops + 1
    /\ UNCHANGED <<gvars, snapshot, wvars>>

\* dc.makeEntrypoint(enforceAbsolutePath) on the chain node n
MakeEntrypoint(n, enforceAbsolutePath) ==
    /\ pc = "idle"
    /\ dcs' = makeEntrypoint(dcs, n, enforceAbsolutePath)
    /\ last' = [op |-> "makeEntrypoint", node |-> n]
    /\ nops' = nops + 1
    /\ UNCHANGED <<hnds, insts, bundles, datas, disk, snapshot, wvars>>

\* ------------------------------------------------------------------------
\* SpecSnap: one instance, the workflow <<S1>> or <<S4>>, and between the steps
\* snapshots of handler 1 written and loaded while files may vanish
\* ------------------------------------------------------------------------
SnapGraph == WithCase(DataHandler__init__(EmptyGraph, DataBase), 1, Case(1))
\* the same with a second confirmed file of the instance, raw.txt, whose
\* type has no tags: InstanceData('raw.txt', DataType.fromString('txt'))
RawTxt == RelPath(<<FileSeg("raw", "txt")>>)
SnapGraphUntagged ==
    ConfirmNew(InstanceData__init__(SnapGraph, {}, RawTxt, DataType("TXT", <<>>),
                                    Len(SnapGraph.inst), 0, 0, FALSE))

InitSnap ==
    /\ \E g \in {SnapGraph, SnapGraphUntagged} :
          /\ SetGInit(g)
          /\ disk = {DataAbspath(g, d) : d \in 1..Len(g.data)}
    /\ snapshot = <<>>
    /\ last = NoOp
    /\ nops = 0
    /\ pc = "idle"
    /\ cur = NoRun
    /\ logger \in {NoLogger, StartedLogger}
    /\ hist = <<>>
    /\ workflow \in {<<"S1">>, <<"S4">>}
    /\ run = 0
    /\ faults = 0

NextSnap ==
    \/ StepNext
    \/ nops < MaxSnapOps /\ Export(1)
    \/ nops < MaxSnapOps /\ \E check_files \in BOOLEAN, confirm_files \in BOOLEAN :
            Import(1, check_files, confirm_files)
    \/ nops < MaxSnapOps /\ \E d \in 1..Len(datas) : Vanish(d)

SpecSnap == InitSnap /\ [][NextSnap]_vars

\* ------------------------------------------------------------------------
\* SpecChain: handlers 1 (/data) and 2 (/mnt); instance 3 (case/1) of
\* handler 1 holds in.txt and, in its bundle seg, out.txt
\* ------------------------------------------------------------------------
ChainGraph ==
    ConfirmNew(InstanceData__init__(
        Instance_getDataBundle(
            WithCase(DataHandler__init__(DataHandler__init__(EmptyGraph, DataBase), OtherBase),
                     1, Case(1)),
            3, SegRef),
        {}, OutTxt, DataType("TXT", <<[k |-> <<"k">>, v |-> <<"out">>]>>), 0, 1, 0, FALSE))

InitChain ==
    /\ SetGInit(ChainGraph)
    /\ disk = {Join(Join(DataBase, Case(1)), InTxt),
               Join(Join(Join(DataBase, Case(1)), SegRef), OutTxt)}
    /\ snapshot = <<>>
    /\ last = NoOp
    /\ nops = 0
    /\ IdleInit

Globals == {hnds[h].globalInstance : h \in 1..Len(hnds)}
\* the paths an instance is moved to: case/2, /abs and the directory 1.2.3
ChainPaths == {Case(2), AbsPath(<<Seg("abs")>>), RelPath(<<FileSeg("1", "2.3")>>)}

NextChain ==
    \/ nops < MaxChainOps /\ \E h \in 1..Len(hnds), i \in (1..Len(insts)) \ Globals : AddInstance(h, i)
    \/ nops < MaxChainOps /\ \E i \in (1..Len(insts)) \ Globals, path \in ChainPaths :
            SetPath(insts[i].dc, path)
    \/ nops < MaxChainOps /\ \E h \in 1..Len(hnds), base \in {NoBase, SomeBase(OtherBase)} :
            SetBase(hnds[h].dc, base)
    \/ nops < MaxChainOps
            /\ \E n \in {datas[d].dc : d \in 1..Len(datas)} \cup {bundles[b].dc : b \in 1..Len(bundles)},
                  enforceAbsolutePath \in BOOLEAN : MakeEntrypoint(n, enforceAbsolutePath)
    \/ nops < MaxChainOps /\ \E n \in 1..Len(dcs) : Makedirs(n)
    \/ nops < MaxChainOps /\ \E h \in 1..Len(hnds) : Export(h)
    \/ nops < MaxChainOps /\ \E h \in 1..Len(hnds), check_files \in BOOLEAN, confirm_files \in BOOLEAN :
            Import(h, check_files, confirm_files)

SpecChain == InitChain /\ [][NextChain]_vars

\* ------------------------------------------------------------------------
\* properties of the snapshots (SpecSnap)
\* ------------------------------------------------------------------------
\* the InstanceData whose confirmed flag is set by the step
Flipped == {d \in 1..Len(datas') : datas'[d].confirmed /\ (d > Len(datas) \/ ~datas[d].confirmed)}
FileThere(d) == Exists(disk', abspath(dcs', datas'[d].dc))
Unverified == last'.op = "import" /\ ~last'.check_files /\ ~last'.confirm_files

\* C4 as stated: whenever the confirmed flag of an InstanceData is set, by
\* the binding layer, the logger or import_yml with any arguments, the file
\* at its resolved abspath exists at that moment.
C4_ConfirmedExists == [][\A d \in Flipped : FileThere(d)]_vars

\* C4 amended: whenever the confirmed flag of an InstanceData is set, the
\* file at its resolved abspath exists at that moment, unless it is set by
\* import_yml called with check_files = False and confirm_files = False,
\* which restores the recorded flag without looking at the disk.
C4_ConfirmedExistsChecked == [][\A d \in Flipped : Unverified \/ FileThere(d)]_vars

\* a snapshot was loaded with confirm_files = True after the file of a
\* confirmed output of the step had vanished: the loaded copy of the output
\* is not confirmed, the loaded copy of the input is
C4_Witness ==
    /\ last.op = "import" /\ last.confirm_files /\ ~last.raised
    /\ \E c \in Calls : \E d \in Range(c.outs) : datas[d].confirmed
    /\ \E d \in 1..Len(datas) : ~datas[d].confirmed /\ ~Exists(disk, DataAbspath(G, d))
    /\ \E d \in Range(insts[hnds[1].instances[1]].data) :
            datas[d].confirmed /\ Exists(disk, DataAbspath(G, d))

\* ------------------------------------------------------------------------
\* properties of the directory chain (SpecChain)
\* ------------------------------------------------------------------------
\* the path an object resolves to when every object is looked up under its
\* present owner: a data under its bundle or else its instance, a bundle
\* under its enclosing bundle or else its instance, an instance under its
\* handler
UnderOwner(c, n, owner) == IF c[n].base.isset THEN Join(c[n].base.p, c[n].path) ELSE Join(owner, c[n].path)
InstanceOwnerPath(g, i) ==
    UnderOwner(g.dc, g.inst[i].dc,
               IF g.inst[i].handler # 0 THEN abspath(g.dc, g.hnd[g.inst[i].handler].dc) ELSE EmptyPath)
RECURSIVE BundleOwnerPath(_, _)
BundleOwnerPath(g, b) ==
    UnderOwner(g.dc, g.bundle[b].dc,
               IF g.bundle[b].bundle # 0 THEN BundleOwnerPath(g, g.bundle[b].bundle)
               ELSE InstanceOwnerPath(g, g.bundle[b].instance))
DataOwnerPath(g, d) ==
    UnderOwner(g.dc, g.data[d].dc,
               IF g.data[d].bundle # 0 THEN BundleOwnerPath(g, g.data[d].bundle)
               ELSE IF g.data[d].instance # 0 THEN InstanceOwnerPath(g, g.data[d].instance)
               ELSE EmptyPath)

\* C9: path resolution is never stale: whatever was changed on the base,
\* path or parent of an ancestor, every bundle and every InstanceData
\* resolves under the present location of its owners.
C9_NeverStale ==
    /\ \A d \in 1..Len(datas) : DataAbspath(G, d) = DataOwnerPath(G, d)
    /\ \A b \in 1..Len(bundles) : abspath(dcs, bundles[b].dc) = BundleOwnerPath(G, b)

\* a bundled file of an instance of handler 2 still resolves below the
\* directory of handler 1
C9_Stale ==
    \E d \in 1..Len(datas) :
        /\ datas[d].bundle # 0
        /\ insts[datas[d].instance].handler = 2
        /\ InSeq(datas[d].instance, hnds[2].instances)
        /\ IsBelow(DataBase, DataAbspath(G, d))
        /\ IsBelow(OtherBase, DataOwnerPath(G, d))

\* the nodes from n up to its root
RECURSIVE Ancestors(_, _)
Ancestors(c, n) == IF n = 0 THEN {} ELSE {n} \cup Ancestors(c, c[n].parent)

\* C10: a node is an entrypoint iff its base is set or its path starts with
\* the root marker; an entrypoint resolves to the same abspath whatever its
\* parent is (none or any other node), every other node resolves to the
\* abspath of its parent joined with its path.
C10_Entrypoint ==
    \A n \in 1..Len(dcs) :
        /\ isEntrypoint(dcs, n) <=> (dcs[n].base.isset \/ dcs[n].path.abs)
        /\ \A p \in 0..Len(dcs) :
            (n \notin Ancestors(dcs, p)) =>
                IF isEntrypoint(dcs, n)
                THEN abspath(setParent(dcs, n, p), n) = abspath(dcs, n)
                ELSE abspath(setParent(dcs, n, p), n)
                        = (IF p = 0 THEN dcs[n].path ELSE Join(abspath(dcs, p), dcs[n].path))

\* an instance with an absolute path under a handler and a file made an
\* entrypoint under its bundle
C10_Witness ==
    /\ \E i \in 1..Len(insts) :
        /\ dcs[insts[i].dc].path.abs /\ ~dcs[insts[i].dc].base.isset
        /\ dcs[insts[i].dc].parent # 0
        /\ abspath(dcs, dcs[insts[i].dc].parent) # abspath(dcs, insts[i].dc)
    /\ \E d \in 1..Len(datas) :
        /\ dcs[datas[d].dc].base.isset /\ ~dcs[datas[d].dc].path.abs
        /\ dcs[datas[d].dc].parent # 0

\* ------------------------------------------------------------------------
\* SpecOwn: the ownership graph under construction
\*   handler 1 at /data with instances 2 (case/1) and 3 (case/2); bundles
\*   are made by Instance.getDataBundle and InstanceData.getDataBundle,
\*   data by the constructor, and data are handed to instances and bundles
\*   by addData
\* ------------------------------------------------------------------------
MaxOwnOps == 4
MaxOwnBundles == 3

SubRef == RelPath(<<Seg("sub")>>)
OwnRefs == {SegRef, SubRef}

OwnGraph ==
    DataHandler_addInstance(
        Instance__init__(DataHandler_addInstance(Instance__init__(DataHandler__init__(EmptyGraph, DataBase),
                                                                  Case(1)), 1, 2),
                         Case(2)), 1, 3)

InitOwn ==
    /\ SetGInit(OwnGraph)
    /\ disk = {}
    /\ snapshot = <<>>
    /\ last = NoOp
    /\ nops = 0
    /\ IdleInit

\* InstanceData(path, type, instance, bundle, data)
OwnNew(i, b, d) ==
    /\ \E r \in {InstanceData__init__(G, disk, OutTxt, NoType, i, b, d, FALSE)} :
           /\ SetG(r.g)
           /\ last' = [op |-> "new", instance |-> i, bundle |-> b, data |-> d, id |-> r.id,
                       raised |-> r.raised]
    /\ nops' = nops + 1
    /\ UNCHANGED <<disk, snapshot, wvars>>

\* instance.getDataBundle(ref)
OwnInstanceBundle(i, ref) ==
    /\ Len(bundles) < MaxOwnBundles
    /\ SetG(Instance_getDataBundle(G, i, ref))
    /\ last' = [op |-> "Instance.getDataBundle", instance |-> i]
    /\ nops' = nops + 1
    /\ UNCHANGED <<disk, snapshot, wvars>>

\* data.getDataBundle(ref); the instance property asserts that it is set
OwnDataBundle(d, ref) ==
    /\ Len(bundles) < MaxOwnBundles
    /\ datas[d].instance # 0
    /\ SetG(InstanceData_getDataBundle(G, d, ref))
    /\ last' = [op |-> "InstanceData.getDataBundle", data |-> d]
    /\ nops' = nops + 1
    /\ UNCHANGED <<disk, snapshot, wvars>>

\* instance.addData(data)
OwnAddData(i, d) ==
    /\ SetG(Instance_addData(G, i, d))
    /\ last' = [op |-> "Instance.addData", instance |-> i, data |-> d]
    /\ nops' = nops + 1
    /\ UNCHANGED <<disk, snapshot, wvars>>

\* bundle.addData(data)
OwnBundleAddData(b, d) ==
    /\ SetG(InstanceDataBundle_addData(G, b, d))
    /\ last' = [op |-> "InstanceDataBundle.addData", bundle |-> b, data |-> d]
    /\ nops' = nops + 1
    /\ UNCHANGED <<disk, snapshot, wvars>>

NextOwn ==
    \/ nops < MaxOwnOps /\ \E i \in {0, 2, 3}, b \in 0..Len(bundles), d \in 0..Len(datas) : OwnNew(i, b, d)
    \/ nops < MaxOwnOps /\ \E i \in {2, 3}, ref \in OwnRefs : OwnInstanceBundle(i, ref)
    \/ nops < MaxOwnOps /\ \E d \in 1..Len(datas), ref \in OwnRefs : OwnDataBundle(d, ref)
    \/ nops < MaxOwnOps /\ \E i \in {2, 3}, d \in 1..Len(datas) : OwnAddData(i, d)
    \/ nops < MaxOwnOps /\ \E b \in 1..Len(bundles), d \in 1..Len(datas) : OwnBundleAddData(b, d)

SpecOwn == InitOwn /\ [][NextOwn]_vars

\* ------------------------------------------------------------------------
\* properties of the ownership graph (SpecOwn)
\* ------------------------------------------------------------------------
\* the refs of bundle b and of the bundles that enclose it, the outermost
\* first, as one relative path
RECURSIVE RefsOf(_)
RefsOf(b) ==
    IF bundles[b].bundle = 0 THEN dcs[bundles[b].dc].path
    ELSE Join(RefsOf(bundles[b].bundle), dcs[bundles[b].dc].path)

\* number of bundles bundle b is nested in
RECURSIVE Depth(_)
Depth(b) == IF bundles[b].bundle = 0 THEN 0 ELSE 1 + Depth(bundles[b].bundle)

\* the instance the outermost bundle around bundle b was created under
RECURSIVE InstanceAround(_)
InstanceAround(b) ==
    IF bundles[b].bundle = 0 THEN bundles[b].instance ELSE InstanceAround(bundles[b].bundle)

\* C11: a file of a bundle resolves to <instance path>/<bundle refs>/<file
\* path>, where the instance is the one the bundle, or the outermost bundle
\* around it, is under, and the refs are those of the enclosing bundles and
\* of the bundle, in nesting order.
C11_BundlePath ==
    \A d \in 1..Len(datas) :
        datas[d].bundle # 0 =>
            DataAbspath(G, d)
                = Join(Join(abspath(dcs, insts[InstanceAround(datas[d].bundle)].dc),
                            RefsOf(datas[d].bundle)),
                       dcs[datas[d].dc].path)

\* a file in a bundle of an instance, and a file in a bundle nested in
\* another bundle: /data/case/1/seg/sub/out.txt
C11_Witness ==
    /\ \E d \in 1..Len(datas) :
        /\ datas[d].bundle # 0 /\ Depth(datas[d].bundle) = 0
        /\ DataAbspath(G, d) = Join(Join(Join(DataBase, Case(1)), SegRef), OutTxt)
    /\ \E d \in 1..Len(datas) :
        /\ datas[d].bundle # 0 /\ Depth(datas[d].bundle) = 1
        /\ DataAbspath(G, d) = Join(Join(Join(Join(DataBase, Case(1)), SegRef), SubRef), OutTxt)

\* the instances whose collection holds data d
HoldersOf(d) == {i \in 1..Len(insts) : InSeq(d, insts[i].data)}
Occurrences(s, d) == Cardinality({k \in 1..Len(s) : s[k] = d})

\* C12: every InstanceData occurs at most once in the collection of an
\* instance, and once it has an instance it is in the collection of that
\* instance and of no other.
C12_OneHolder ==
    \A d \in 1..Len(datas) :
        /\ \A i \in 1..Len(insts) : Occurrences(insts[i].data, d) <= 1
        /\ datas[d].instance # 0 => HoldersOf(d) = {datas[d].instance}

\* a data handed from one instance to another by addData is held by both
C12_TwoHolders ==
    \E d \in 1..Len(datas) : Cardinality(HoldersOf(d)) = 2 /\ last.op = "Instance.addData"

\* the calls whose single declared input matched no file of the instance
MissingCalls == {c \in Calls : c.prepared = "MHubMissingDataError"}

\* C13: when a declared IO.Input matches no file of the instance, the call
\* fails with MHubMissingDataError: the body is not invoked for that
\* instance, none of its outputs is created or confirmed, the failure is
\* caught per instance, and once the run of the step is over every
\* registered instance has been processed.
C13_MissingInput ==
    \A c \in MissingCalls :
        /\ c.body = "none"
        /\ c.made = <<>>
        /\ c.outs = <<>>
        /\ c.status \in {"RAISED", "FAILED"}
        /\ (c.run = run /\ pc \in {"finish", "idle", "crashed"}) =>
              \A i \in Registered : \E c2 \in CallsOfRun(run) : c2.inst = i

\* the run of a step was aborted after a call failed for a missing input,
\* with a registered instance left unprocessed
C13_Aborted ==
    /\ pc = "crashed"
    /\ \E c \in MissingCalls : c.run = run /\ c.status = "FAILED"
    /\ \E i \in Registered : \A c \in CallsOfRun(run) : c.inst # i

\* the calls of run r for the registered instances, in the order they began
LoopCalls(r) ==
    SelectSeq(hist, LAMBDA c : c.run = r /\ c.inst # hnds[1].globalInstance)

\* the position of a status on the path PENDING, INPUTS_RESOLVED,
\* BODY_RUNNING, end: a call is recorded once its inputs are resolved
Rank(status) ==
    CASE status = "BODY_RUNNING" -> 3
      [] status \in {"RETURNED", "RAISED"} -> 4
      [] status \in {"OUTPUTS_CONFIRMED", "FAILED"} -> 5
Terminal(c) == c.status \in {"OUTPUTS_CONFIRMED", "FAILED"}

\* the calls of a run follow the list of the handler, one call per instance;
\* a call that ended in OUTPUTS_CONFIRMED ran its body to the end, one that
\* ended in FAILED did not; only the last call can be unfinished, and only
\* while the wrapper is at work on it
C14_Inv ==
    /\ \A r \in 1..run :
          /\ Len(LoopCalls(r)) <= Len(hnds[1].instances)
          /\ \A k \in 1..Len(LoopCalls(r)) : LoopCalls(r)[k].inst = hnds[1].instances[k]
    /\ \A j \in 1..Len(hist) :
          /\ hist[j].status = "OUTPUTS_CONFIRMED" => hist[j].body = "returned"
          /\ hist[j].status = "FAILED" => hist[j].body \in {"none", "raised"}
          /\ ~Terminal(hist[j]) => (j = Len(hist) /\ pc \in {"body", "confirm", "except"})

\* a step of the program changes the last call only, moves its status
\* forward, never changes a status that is final, never invokes a body a
\* second time, and begins a call only when the one before has ended
C14_Step ==
    /\ Len(hist') \in {Len(hist), Len(hist) + 1}
    /\ \A j \in 1..Len(hist) :
          /\ Rank(hist'[j].status) >= Rank(hist[j].status)
          /\ Terminal(hist[j]) => hist'[j] = hist[j]
          /\ hist[j].body # "none" => hist'[j].body = hist[j].body
          /\ hist'[j].inst = hist[j].inst /\ hist'[j].run = hist[j].run
    /\ Len(hist') > Len(hist) => \A j \in 1..Len(hist) : Terminal(hist[j])

\* C14: within one run of a step each (step, instance) pair moves only
\* forward through PENDING, INPUTS_RESOLVED, BODY_RUNNING and ends in exactly
\* one of OUTPUTS_CONFIRMED or FAILED; the instances are processed one after
\* another in the order of the list of the handler, the body is invoked at
\* most once per instance and a failed instance is not retried in that step.
C14_Lifecycle == []C14_Inv /\ [][C14_Step]_vars

\* a run of a step is over in which the three instances were processed in
\* the order of the list, one of them failed and another was confirmed
C14_Witness ==
    /\ pc = "idle" /\ run > 0
    /\ Len(LoopCalls(run)) = 3
    /\ \E k \in 1..2 :
          /\ LoopCalls(run)[k].status = "FAILED"
          /\ LoopCalls(run)[k + 1].status = "OUTPUTS_CONFIRMED"

\* the calls of run r in the order they began
RunCalls(r) == SelectSeq(hist, LAMBDA c : c.run = r)
GlobalCalls(r) == {c \in CallsOfRun(r) : c.inst = hnds[1].globalInstance}
RunOver(r) == r < run \/ (r = run /\ pc = "idle")

MaxFlagOps == 2

\* DataFilter / InstanceFilter: config.data.instances = the instances kept
FilterInstances(h, keep) ==
    /\ pc = "idle"
    /\ SetG(DataHandler_setInstances(G, h, SelectSeq(hnds[h].instances, LAMBDA i : i \in keep)))
    /\ last' = [op |-> "filter", handler |-> h]
    /\ nops' = nops + 1
    /\ UNCHANGED <<disk, snapshot, wvars>>

FlagGraph ==
    WithCase(WithCase(DataHandler__init__(DataHandler__init__(EmptyGraph, DataBase), OtherBase),
                      1, Case(1)), 1, Case(2))

InitFlag ==
    /\ SetGInit(FlagGraph)
    /\ disk = {Join(Join(DataBase, Case(1)), InTxt), Join(Join(DataBase, Case(2)), InTxt)}
    /\ snapshot = <<>>
    /\ last = NoOp
    /\ nops = 0
    /\ pc = "idle"
    /\ cur = NoRun
    /\ logger \in {NoLogger, StartedLogger}
    /\ hist = <<>>
    /\ workflow \in {<<"S1", "S2">>, <<"S4">>}
    /\ run = 0
    /\ faults = 0

NextFlag ==
    \/ StepNext
    \/ nops < MaxFlagOps /\ \E h \in 1..Len(hnds), i \in (1..Len(insts)) \ Globals : AddInstance(h, i)
    \/ nops < MaxFlagOps /\ \E h \in 1..Len(hnds) : \E keep \in SUBSET Range(hnds[h].instances) :
            FilterInstances(h, keep)

SpecFlag == InitFlag /\ [][NextFlag]_vars

\* C16: confirmation is monotonic: no step of the program (a later step, a
\* failed step, the binding of the instance to another handler, the
\* filtering of the instances of a handler) takes an InstanceData from
\* confirmed back to unconfirmed.
C16_Monotonic ==
    [][/\ Len(datas') >= Len(datas)
       /\ \A d \in 1..Len(datas) : datas[d].confirmed => datas'[d].confirmed]_vars

\* an output confirmed by S1 is still confirmed after S2 failed on its
\* instance, the instance was bound to handler 2 and filtered out of the
\* list of handler 1
C16_Witness ==
    /\ pc = "idle" /\ run = 2
    /\ \E c \in CallsOfRun(1), c2 \in CallsOfRun(2) :
          /\ c2.inst = c.inst
          /\ c2.status = "FAILED"
          /\ c.outs # <<>>
          /\ \A d \in Range(c.outs) : datas[d].confirmed
          /\ insts[c.inst].handler = 2
          /\ c.inst \notin Range(hnds[1].instances)

\* ------------------------------------------------------------------------
\* SpecQuery: the type of one file, and one query, clause or tag map
\* evaluated against it
\* ------------------------------------------------------------------------
Tag(k, v) == [k |-> <<k>>, v |-> v]
ModValues == {<<"ct">>, <<"CT">>, <<"mr">>, <<>>}
StudyValues == {<<"1">>, <<"2">>, <<"1", ",", "2">>}
RoiValues == {<<"heart">>, <<"liver">>, <<"heart", ",", "liver">>, <<"heart", ",", "lung">>, <<>>}
SliceValues == {<<"1">>, <<"10">>, <<"-1">>, <<"thin">>}
QueryMetas ==
    {<<>>} \cup {<<Tag("mod", m)>> : m \in ModValues} \cup {<<Tag("study", s)>> : s \in StudyValues}
        \cup {<<Tag("mod", m), Tag("study", s)>> : m \in ModValues, s \in StudyValues}
        \cup {<<Tag("roi", r)>> : r \in RoiValues} \cup {<<Tag("slice", n)>> : n \in SliceValues}
QueryTypes == {DataType(f, m) : f \in {"DICOM", "NIFTI"}, m \in QueryMetas}

\* expressions over three single expressions, two operators deep
Atom(a) == [op |-> "atom", a |-> a]
Not(e) == [op |-> "not", l |-> e]
And(l, r) == [op |-> "and", l |-> l, r |-> r]
Or(l, r) == [op |-> "or", l |-> l, r |-> r]
QueryAtoms == {<<"dicom">>, <<"any", ":", "mod", "=", "ct">>, <<"any", ":", "study", "=", "1">>}
Grow(S) ==
    S \cup {Not(e) : e \in S} \cup {And(l, r) : l, r \in S} \cup {Or(l, r) : l, r \in S}
Exprs == Grow(Grow({Atom(a) : a \in QueryAtoms}))

\* the query string of an expression: a group where the reduction order
\* would not give the operand to its operator
RECURSIVE Render(_)
Group(e) == <<"(">> \o Render(e) \o <<")">>
Render(e) ==
    CASE e.op = "atom" -> e.a
      [] e.op = "not" -> <<"NOT", " ">> \o (IF e.l.op = "atom" THEN e.l.a ELSE Group(e.l))
      [] e.op = "and" -> (IF e.l.op = "or" THEN Group(e.l) ELSE Render(e.l))
                              \o <<" ", "AND", " ">>
                              \o (IF e.r.op = "or" THEN Group(e.r) ELSE Render(e.r))
      [] e.op = "or" -> Render(e.l) \o <<" ", "OR", " ">> \o Render(e.r)

\* the value of an expression under the values of its single expressions
RECURSIVE Eval(_, _)
Eval(e, ref_type) ==
    CASE e.op = "atom" -> evaluateSingle(e.a, ref_type)
      [] e.op = "not" -> ~Eval(e.l, ref_type)
      [] e.op = "and" -> Eval(e.l, ref_type) /\ Eval(e.r, ref_type)
      [] e.op = "or" -> Eval(e.l, ref_type) \/ Eval(e.r, ref_type)

\* single expressions types[:clause]*: the names of the types and up to two
\* clauses
Clause(k, op, v) == [k |-> <<k>>, op |-> op, v |-> v]
TokenTypes == {<<"dicom">>, <<"DICOM">>, <<"dicom", "nifti">>, <<"any">>, <<"any", "dicom">>}
TokenClauses ==
    {Clause("mod", "=", <<"ct">>), Clause("mod", "=", <<"ct", "|", "mr">>),
     Clause("mod", "=", <<"*">>), Clause("mod", "!=", <<"ct">>), Clause("study", "=", <<"1">>)}
Tokens ==
    {[types |-> t, clauses |-> c] :
        t \in TokenTypes,
        c \in {<<>>} \cup {<<a>> : a \in TokenClauses} \cup {<<a, b>> : a, b \in TokenClauses}}
RECURSIVE JoinNames(_)
JoinNames(names) ==
    IF Len(names) = 1 THEN names ELSE <<names[1], "|">> \o JoinNames(Tail(names))
RECURSIVE JoinClauses(_)
JoinClauses(clauses) ==
    IF clauses = <<>> THEN <<>>
    ELSE <<":">> \o clauses[1].k \o <<clauses[1].op>> \o clauses[1].v \o JoinClauses(Tail(clauses))
TokenString(tok) == JoinNames(tok.types) \o JoinClauses(tok.clauses)

\* clauses key>=v
GeqClauses ==
    {<<"study", ">=">> \o v : v \in {<<"1">>, <<"2">>, <<"1", ",", "2">>}}
        \cup {<<"mod", ">=">> \o v : v \in {<<"ct">>, <<"mr">>}}

\* clauses key op v: a key, one of the nine operators and a value that is a
\* word, a number, a list or empty
ClauseOps == {"!=", "><", ">=", "<=", "<>", "~=", "=", ">", "<"}
ClauseValues ==
    {<<"heart">>, <<"heart", ",", "liver">>, <<"liver", ",", "heart">>, <<"lung", ",", "liver">>,
     <<"1">>, <<"2">>, <<"thin">>, <<>>}
MetaClauses ==
    GeqClauses \cup {<<k, op>> \o v : k \in {"roi", "slice", "sex"}, op \in ClauseOps, v \in ClauseValues}
\* the key, the operator and the value of such a clause
ClauseKey(kov) == <<kov[1]>>
ClauseOp(kov) == kov[2]
ClauseValue(kov) == SubSeq(kov, 3, Len(kov))

InitQuery ==
    /\ SetGInit(EmptyGraph)
    /\ disk = {}
    /\ snapshot = <<>>
    /\ last \in {[op |-> "none", ref_type |-> t] : t \in QueryTypes}
    /\ nops = 0
    /\ IdleInit

\* DataTypeQuery(query).exec(ref_type)
Exec(e) ==
    /\ last.op = "none"
    /\ last' = [op |-> "exec", ref_type |-> last.ref_type, expr |-> e, query |-> Render(e),
                result |-> exec(Render(e), last.ref_type)]
    /\ UNCHANGED <<gvars, disk, snapshot, nops, wvars>>

\* the queries a NOT is put in front of: a single expression, or two of
\* them joined by AND or OR
PrefixedExprs == {e \in Grow({Atom(a) : a \in QueryAtoms}) : e.op # "not"}

\* DataTypeQuery('NOT ' + query).exec(ref_type), as FileRemover runs a query
\* that was prefixed with NOT
ExecNot(e) ==
    /\ last.op = "none"
    /\ last' = [op |-> "execNot", ref_type |-> last.ref_type, expr |-> e,
                query |-> <<"NOT", " ">> \o Render(e),
                result |-> exec(<<"NOT", " ">> \o Render(e), last.ref_type)]
    /\ UNCHANGED <<gvars, disk, snapshot, nops, wvars>>

\* DataType.fromString(ref_type.toString())
RoundTrip ==
    /\ last.op = "none"
    /\ \E r \in {fromString(toString(last.ref_type))} :
          last' = [op |-> "roundTrip", ref_type |-> last.ref_type,
                   string |-> toString(last.ref_type), raised |-> r.raised, type |-> r.type]
    /\ UNCHANGED <<gvars, disk, snapshot, nops, wvars>>

\* DataTypeQuery.evaluate(expr, ref_type) of a single expression
Evaluate(tok) ==
    /\ last.op = "none"
    /\ last' = [op |-> "evaluate", ref_type |-> last.ref_type, token |-> tok,
                query |-> TokenString(tok),
                result |-> evaluate(TokenString(tok), last.ref_type)]
    /\ UNCHANGED <<gvars, disk, snapshot, nops, wvars>>

\* DataTypeQuery.evaluateMeta(kov, ref_type.meta)
EvaluateMeta(kov) ==
    /\ last.op = "none"
    /\ \E r \in {evaluateMetaResult(kov, last.ref_type.meta)} :
          last' = [op |-> "evaluateMeta", ref_type |-> last.ref_type, kov |-> kov,
                   raised |-> r.raised, result |-> r.value]
    /\ UNCHANGED <<gvars, disk, snapshot, nops, wvars>>

\* ref_type.meta <= o
Le(o) ==
    /\ last.op = "none"
    /\ last' = [op |-> "__le__", ref_type |-> last.ref_type, o |-> o,
                result |-> Meta__le__(last.ref_type.meta, o)]
    /\ UNCHANGED <<gvars, disk, snapshot, nops, wvars>>

NextQuery ==
    \/ \E e \in Exprs : Exec(e)
    \/ \E e \in PrefixedExprs : ExecNot(e)
    \/ \E tok \in Tokens : Evaluate(tok)
    \/ RoundTrip
    \/ \E kov \in MetaClauses : EvaluateMeta(kov)
    \/ \E o \in QueryMetas : Le(o)

SpecQuery == InitQuery /\ [][NextQuery]_vars

\* C17: parse reduces all NOT, then all AND, then all OR, each leftmost
\* first, with groups evaluated recursively: the result of a query is the
\* value of its expression with NOT binding before AND and AND before OR,
\* for every assignment of the single expressions; so A AND B OR C is
\* (A AND B) OR C and A OR B AND C is A OR (B AND C).
C17_Reduction ==
    last.op = "exec" => last.result = Eval(last.expr, last.ref_type)

\* A AND B OR C was evaluated to true with A false, B true and C true
C17_Witness ==
    /\ last.op = "exec"
    /\ last.query = <<"dicom", " ", "AND", " ", "any", ":", "mod", "=", "ct", " ", "OR", " ",
                      "any", ":", "study", "=", "1">>
    /\ ~evaluateSingle(<<"dicom">>, last.ref_type)
    /\ evaluateSingle(<<"any", ":", "mod", "=", "ct">>, last.ref_type)
    /\ evaluateSingle(<<"any", ":", "study", "=", "1">>, last.ref_type)
    /\ last.result

\* what a clause of a token says of a tag map
ClauseHolds(c, meta) ==
    IF c.op = "!=" THEN ~HasKey(meta, c.k) \/ getValue(meta, c.k) # c.v
    ELSE /\ HasKey(meta, c.k)
         /\ \/ c.v = <<"*">>
            \/ \E j \in 1..Len(Split(c.v, "|")) :
                  LowerStr(getValue(meta, c.k)) = LowerStr(Split(c.v, "|")[j])
TypeInSet(names, ftype) ==
    \/ LowerStr(names) = <<"any">>
    \/ \E j \in 1..Len(names) : Lower(names[j]) = Lower(ftype)
\* the tag map without the tags the token does not mention
Mentioned(tok, meta) ==
    SelectSeq(meta, LAMBDA item : \E j \in 1..Len(tok.clauses) : tok.clauses[j].k = item.k)

\* C18: a token types[:clause]* matches a file iff the type of the file is
\* one of the | separated types, or the set is any, and every clause holds
\* on the tags of the file; the tags the token does not mention do not
\* change the result.
C18_Token ==
    last.op = "evaluate" =>
        /\ last.result = (/\ TypeInSet(last.token.types, last.ref_type.ftype)
                          /\ \A j \in 1..Len(last.token.clauses) :
                                ClauseHolds(last.token.clauses[j], last.ref_type.meta))
        /\ last.result = evaluate(last.query,
                                  DataType(last.ref_type.ftype,
                                           Mentioned(last.token, last.ref_type.meta)))

\* dicom:mod=ct matched the file (DICOM, {mod: ct, study: 1})
C18_Witness ==
    /\ last.op = "evaluate"
    /\ last.query = <<"dicom", ":", "mod", "=", "ct">>
    /\ last.ref_type = DataType("DICOM", <<Tag("mod", <<"ct">>), Tag("study", <<"1">>)>>)
    /\ last.result

\* C19: A <= B holds iff for every key k of B either B[k] is * and A carries
\* k, or A carries k with a value equal to B[k] ignoring case.
C19_Generality ==
    last.op = "__le__" =>
        last.result =
            \A j \in 1..Len(last.o) :
                /\ HasKey(last.ref_type.meta, last.o[j].k)
                /\ \/ last.o[j].v = <<"*">>
                   \/ LowerStr(getValue(last.ref_type.meta, last.o[j].k)) = LowerStr(last.o[j].v)

\* A <= B was found to hold although B has a key that A does not carry
C19_MissingKey ==
    /\ last.op = "__le__"
    /\ last.result
    /\ \E j \in 1..Len(last.o) : ~HasKey(last.ref_type.meta, last.o[j].k)

\* the operands of a clause key>=v
GeqKey(kov) == Split(kov, ">=")[1]
GeqValue(kov) == Split(kov, ">=")[2]
\* what the clause says of the value r of the tag
GeqHolds(v, r) ==
    IF isnumeric(v) THEN int(r) >= int(v)
    ELSE IF HasOp(v, ",") THEN ItemSet(v) \subseteq ItemSet(r)
    ELSE Contains(r, v)

\* C20: on a file that carries the key, a clause key>=v is evaluated to: the
\* tag value numerically greater than or equal to v when v is numeric, the
\* list of the tag containing all listed values when v is a comma separated
\* list, v a substring of the tag value otherwise.
C20_Geq ==
    (/\ last.op = "evaluateMeta"
     /\ HasKey(last.ref_type.meta, GeqKey(last.kov))
     /\ isnumeric(GeqValue(last.kov)) => isnumeric(getValue(last.ref_type.meta, GeqKey(last.kov))))
        => /\ ~last.raised
           /\ last.result = GeqHolds(GeqValue(last.kov), getValue(last.ref_type.meta, GeqKey(last.kov)))

\* the evaluation of study>=1 raised on a file with the tag study = 2
C20_Raised ==
    /\ last.op = "evaluateMeta"
    /\ last.kov = <<"study", ">=", "1">>
    /\ getValue(last.ref_type.meta, <<"study">>) = <<"2">>
    /\ last.raised

\* the items of a comma separated value, by position
Items(s) == Split(s, ",")

\* C21: a clause key<=v with a list v holds iff the file carries the key and
\* the list of its value is not empty and has only values of the list v;
\* with a numeric v it holds iff the value of the tag is numerically at most
\* v.  roi<=heart,liver holds for roi = heart and roi = heart,liver and not
\* for roi = heart,lung.
C21_Leq ==
    (last.op = "evaluateMeta" /\ ClauseOp(last.kov) = "<=") =>
        LET v == ClauseValue(last.kov)
            r == getValue(last.ref_type.meta, ClauseKey(last.kov))
            holds == ~last.raised /\ last.result
        IN  /\ isnumeric(v) =>
                (holds <=> /\ HasKey(last.ref_type.meta, ClauseKey(last.kov))
                           /\ CanInt(r)
                           /\ int(r) <= int(v))
            /\ ~isnumeric(v) =>
                (holds <=> /\ HasKey(last.ref_type.meta, ClauseKey(last.kov))
                           /\ Len(Items(r)) > 0
                           /\ \A j \in 1..Len(Items(r)) :
                                 \E i \in 1..Len(Items(v)) : Items(r)[j] = Items(v)[i])
            /\ (last.kov = <<"roi", "<=", "heart", ",", "liver">> /\ HasKey(last.ref_type.meta, <<"roi">>)) =>
                  (holds <=> r \in {<<"heart">>, <<"liver">>, <<"heart", ",", "liver">>})

\* roi<=heart,liver was found to hold on a file with roi = heart
C21_Witness ==
    /\ last.op = "evaluateMeta"
    /\ last.kov = <<"roi", "<=", "heart", ",", "liver">>
    /\ getValue(last.ref_type.meta, <<"roi">>) = <<"heart">>
    /\ ~last.raised /\ last.result

\* C22: a clause whose key the file does not carry is evaluated to false
\* without raising for every operator other than !=, whatever its value, and
\* a clause key!=v on such a file is evaluated to true.
C22_AbsentKey ==
    (last.op = "evaluateMeta" /\ ~HasKey(last.ref_type.meta, ClauseKey(last.kov))) =>
        /\ ~last.raised
        /\ last.result = (ClauseOp(last.kov) = "!=")

\* the evaluation of sex>=1 raised on a file without the tag sex
C22_RaisedOnAbsentKey ==
    /\ last.op = "evaluateMeta"
    /\ last.kov = <<"sex", ">=", "1">>
    /\ ~HasKey(last.ref_type.meta, <<"sex">>)
    /\ last.raised

\* the operands of a clause do not have the shape its operator requires: v
\* is the value of the clause, r the value of the tag if the file has it
Malformed(kov, meta) ==
    LET v == ClauseValue(kov)
        has == HasKey(meta, ClauseKey(kov))
        r == getValue(meta, ClauseKey(kov))
    IN  \/ ClauseOp(kov) \in {">", "<"} /\ (~isnumeric(v) \/ (has /\ ~isnumeric(r)))
        \/ ClauseOp(kov) \in {"><", "<>"} /\ (~HasOp(v, ",") \/ (has /\ ~HasOp(r, ",")))
        \/ ClauseOp(kov) \in {"<=", ">="} /\ isnumeric(v) /\ has /\ ~CanInt(r)

\* C23: the evaluation of a clause whose operands do not have the shape its
\* operator requires raises, whatever tags the file carries; it never gives
\* true or false.
C23_Fatal ==
    (last.op = "evaluateMeta" /\ Malformed(last.kov, last.ref_type.meta)) => last.raised

\* sex><heart, a set comparison with a value that is no list, was evaluated
\* to false on a file without the tag sex
C23_SilentlyFalse ==
    /\ last.op = "evaluateMeta"
    /\ last.kov = <<"sex", "><", "heart">>
    /\ ~last.raised /\ ~last.result

\* C24: NOT in front of a query inverts it: for every query Q, a single
\* expression or a composition with AND or OR, and every file, NOT Q
\* matches the file iff Q does not match it.
C24_Inverts ==
    last.op = "execNot" => last.result = ~exec(Render(last.expr), last.ref_type)

\* NOT dicom AND any:mod=ct did not match a NIFTI file without tags, which
\* dicom AND any:mod=ct does not match either
C24_NotInverted ==
    /\ last.op = "execNot"
    /\ last.query = <<"NOT", " ", "dicom", " ", "AND", " ", "any", ":", "mod", "=", "ct">>
    /\ last.ref_type = DataType("NIFTI", <<>>)
    /\ ~last.result
    /\ ~exec(<<"dicom", " ", "AND", " ", "any", ":", "mod", "=", "ct">>, last.ref_type)

\* C25: for every DataType t, the one without tags included,
\* DataType.fromString(t.toString()) does not raise and gives the file type
\* and the tags of t.
C25_RoundTrip ==
    last.op = "roundTrip" => ~last.raised /\ last.type = last.ref_type

\* fromString raised on the string of a DataType without tags
C25_EmptyMetaRaised ==
    /\ last.op = "roundTrip"
    /\ last.ref_type = DataType("DICOM", <<>>)
    /\ last.string = <<"DICOM", ":">>
    /\ last.raised

\* C26: export_yml followed by import_yml into a handler with the same base
\* gives the graph back: the import does not raise and the handler shows
\* the same instances with their attributes and resolved paths and, for each
\* instance, the same files with the same type, bundle, resolved path and
\* confirmed flag.
C26_RoundTrip ==
    (/\ last.op = "import"
     /\ last.source # 0
     /\ abspath(dcs, hnds[last.source].dc) = abspath(dcs, hnds[last.handler].dc))
        => ~last.raised /\ GraphView(G, last.handler) = last.exported

\* the snapshot of a handler whose instance has a confirmed file without
\* tags, raw.txt, was loaded with the default arguments right after it was
\* written, all files on disk, and import_yml raised
C26_ImportRaised ==
    /\ last.op = "import" /\ last.source = last.handler
    /\ last.check_files /\ ~last.confirm_files
    /\ \E k \in 1..Len(last.exported) : \E j \in 1..Len(last.exported[k].files) :
          last.exported[k].files[j].type = DataType("TXT", <<>>)
    /\ \A k \in 1..Len(last.exported) : \A j \in 1..Len(last.exported[k].files) :
          last.exported[k].files[j].abspath \in disk
    /\ last.raised

\* ------------------------------------------------------------------------
\* SpecRemove: the workflows that end with the FileRemover, step S5
\* ------------------------------------------------------------------------
InitRemove ==
    /\ SetGInit(FlowGraph)
    /\ disk \in FlowDisks
    /\ snapshot = <<>>
    /\ last = NoOp
    /\ nops = 0
    /\ pc = "idle"
    /\ cur = NoRun
    /\ logger \in {NoLogger, StartedLogger}
    /\ hist = <<>>
    /\ workflow \in {<<"S5">>, <<"S1", "S5">>, <<"S4", "S5">>}
    /\ run = 0
    /\ faults = 0

NextRemove ==
    \/ StepNext
    \/ FileRemoverTask

SpecRemove == InitRemove /\ [][NextRemove]_vars

\* the calls of the FileRemover that have come to their end
RemoverCalls == {c \in Calls : c.step = "S5" /\ Terminal(c)}

\* C27: after the FileRemover has run on an instance, no InstanceData that
\* matches its query is left in the data collection of the instance, and the
\* file of every InstanceData that matches the query is gone from the disk.
C27_Removed ==
    \A c \in RemoverCalls :
        /\ filter(G, insts[c.inst].data, RemoverQuery, FALSE) = <<>>
        /\ \A d \in 1..Len(datas) :
              exec(RemoverQuery, datas[d].type) /\ datas[d].instance = c.inst
                  => DataAbspath(G, d) \notin disk

\* the FileRemover has run on every instance, each call failed, and in.txt,
\* which matches the query, is still in the collection of each instance and
\* on the disk
C27_Kept ==
    /\ pc = "idle" /\ run = Len(workflow)
    /\ \A i \in Range(hnds[1].instances) :
          /\ \E c \in RemoverCalls : c.inst = i /\ c.status = "FAILED"
          /\ \E d \in Range(insts[i].data) :
                exec(RemoverQuery, datas[d].type) /\ DataAbspath(G, d) \in disk

\* a path denotes a file iff its last segment has a dot with an extension
\* behind it
DenotesFile(p) == p.segs # <<>> /\ p.segs[Len(p.segs)].ext # ""

\* C28: makedirs creates the resolved path itself when the path denotes a
\* directory and only the directory above it when it denotes a file; a dot
\* in an earlier segment, as in /data/1.2.3/seg, does not make the path a
\* file.
C28_Makedirs ==
    [][(nops' = nops + 1 /\ last'.op = "makedirs") =>
          disk' = disk \cup {IF DenotesFile(last'.path) THEN SplitHead(last'.path) ELSE last'.path}]_vars

\* makedirs was called on the bundle at /data/1.2.3/seg and the directory
\* does not exist afterwards
C28_DirectoryMissing ==
    /\ last.op = "makedirs"
    /\ last.path = AbsPath(<<Seg("data"), FileSeg("1", "2.3"), Seg("seg")>>)
    /\ ~Exists(disk, last.path)
    /\ Exists(disk, SplitHead(last.path))

\* ------------------------------------------------------------------------
\* C29: meta inheritance
\* ------------------------------------------------------------------------
MetaKeys(m) == {m[j].k : j \in 1..Len(m)}
\* m is the tag map under overlaid with the tag map over
IsOverlay(m, under, over) ==
    /\ MetaKeys(m) = MetaKeys(under) \cup MetaKeys(over)
    /\ Len(m) = Cardinality(MetaKeys(m))
    /\ \A k \in MetaKeys(m) :
           getValue(m, k) = IF HasKey(over, k) THEN getValue(over, k) ELSE getValue(under, k)
PrepareStep == last'.op = "prepare" /\ hist' # hist
\* the outputs constructed with a reference by the wrappers of the step
MadeWithRef(h) == {j \in 1..Len(h.made) : h.refs[j].ref # 0}

\* C29: an output declared with a reference input gets the tags of the
\* reference overlaid with the tags of its declared type, the declared tags
\* winning on shared keys, and the DataType and tag map of every data that
\* existed before, the reference among them, are the same after the output
\* was created
C29_Inherit ==
    [][PrepareStep =>
          /\ \A j \in MadeWithRef(hist'[Len(hist')]) :
                 /\ datas'[hist'[Len(hist')].made[j]].type.ftype
                        = hist'[Len(hist')].refs[j].declared.ftype
                 /\ IsOverlay(datas'[hist'[Len(hist')].made[j]].type.meta,
                              datas[hist'[Len(hist')].refs[j].ref].type.meta,
                              hist'[Len(hist')].refs[j].declared.meta)
          /\ \A d \in 1..Len(datas) : datas'[d].type = datas[d].type]_vars

\* an output was created from a reference that has the key of the declared
\* tag with another value and a key the declared type does not have
C29_Witness ==
    /\ last.op = "prepare"
    /\ \E j \in MadeWithRef(hist[Len(hist)]) :
        \E k1, k2 \in MetaKeys(datas[hist[Len(hist)].refs[j].ref].type.meta) :
           /\ HasKey(hist[Len(hist)].refs[j].declared.meta, k1)
           /\ getValue(hist[Len(hist)].refs[j].declared.meta, k1)
                  # getValue(datas[hist[Len(hist)].refs[j].ref].type.meta, k1)
           /\ ~HasKey(hist[Len(hist)].refs[j].declared.meta, k2)
           /\ getValue(datas[hist[Len(hist)].made[j]].type.meta, k2) = <<"ct">>

\* ------------------------------------------------------------------------
\* C30: a failed construction (SpecCtor)
\* ------------------------------------------------------------------------
FailedNew == nops' = nops + 1 /\ last'.op = "new" /\ last'.raised # "no"

\* C30: when the constructor of InstanceData raises, because the owner
\* arguments are inconsistent or because no free auto-increment path was
\* found, the data collection of every instance is the same as before the
\* call: the half-constructed object is registered in no instance.
C30_NothingChanged ==
    [][FailedNew => \A i \in 1..Len(insts) : insts'[i].data = insts[i].data]_vars

\* the constructor has raised and its object is in the collection of an
\* instance: after inconsistent owner arguments, after no free path
C30_LeftAfterAssert ==
    ~(IsNew /\ last.raised = "assert" /\ \E i \in 1..Len(insts) : InSeq(NewId, insts[i].data))
C30_LeftAfterNoFree ==
    ~(IsNew /\ last.raised = "nofree" /\ \E i \in 1..Len(insts) : InSeq(NewId, insts[i].data))

====
